---------------------------- MODULE Spec2Model ----------------------------
(***************************************************************************)
(* A model of the arbitrage-detection engine: the token graph              *)
(* (src/src/graph.rs), the SPFA negative-cycle search and the cycle        *)
(* reconstruction, the path evaluator (src/src/multi_path.rs,              *)
(* src/src/math.rs) and the strategy selector.                             *)
(*                                                                         *)
(* Numbers.  The program computes in f64; the model computes in integers:  *)
(*   - amounts and reserves are whole tokens (one unit = 10^18 wei);       *)
(*   - a fee is in thousandths (3 = 0.003);                                *)
(*   - a logarithm is in ten-thousandths (ln 1000 = 69078);                *)
(*   - gas is in units of 10,000 gas.                                      *)
(* f64::INFINITY is the number INFINITY, absorbing under addition.         *)
(***************************************************************************)
EXTENDS Integers, Sequences, FiniteSets, TLC

\* ------------------------------------------------------------------ bounds

\* The number of add_pool calls of one run.
MaxPools == 4
\* The number of update_pool calls of one run.
MaxUpdates == 1

\* --------------------------------------------------------------- constants

\* f64::INFINITY: larger than any finite distance of the model.
INFINITY == 100000000
\* EPSILON of calculate_log_weights (1e-10 tokens: below one whole token).
EPSILON == 0
\* DEFAULT_TERNARY_SEARCH_ITERATIONS
DEFAULT_TERNARY_SEARCH_ITERATIONS == 100

\* Token: the base token, the two other tokens of the triangle, and a fourth
\* token identity (a Token is a variant with an address, and the graph keys
\* its nodes on both).
Tokens == {"WMNT", "MOE", "JOE", "METH"}

\* Config: dex_fee in thousandths, the price of 10,000 gas in tokens
\* (gas_price_gwei * GWEI_TO_MNT_MULTIPLIER * 10,000), the iteration count.
Config ==
  [dex_fee |-> 3, gas_price |-> 1,
   ternary_search_iterations |-> DEFAULT_TERNARY_SEARCH_ITERATIONS]

\* The reserve snapshots the data source can deliver: PoolReserves
\* (token_a, reserve_a, token_b, reserve_b, pool_address).
Snap(ta, ra, tb, rb, p) ==
  [token_a |-> ta, reserve_a |-> ra, token_b |-> tb, reserve_b |-> rb,
   pool_address |-> p]

\* The snapshots add_pool is called with when the pools are loaded.
PoolSnapshots ==
  { Snap("WMNT", 1000, "MOE", 900, 1),
    Snap("MOE", 1000, "JOE", 1100, 2),
    Snap("JOE", 1000, "WMNT", 1200, 3),
    Snap("JOE", 1000, "METH", 1100, 4),
    Snap("METH", 1000, "WMNT", 1200, 5),
    Snap("JOE", 1200, "MOE", 900, 6) }

\* The snapshots fetched later for the pools: a pool may report its tokens
\* in either order, and a drained pool reports a zero reserve.
UpdateSnapshots ==
  { Snap("MOE", 1100, "WMNT", 1000, 1),
    Snap("MOE", 0, "JOE", 1100, 2),
    Snap("WMNT", 0, "MOE", 900, 1) }

\* ------------------------------------------------------------ f64 helpers

\* a + b in f64 with an infinite operand.
FAdd(a, b) == IF a >= INFINITY \/ b >= INFINITY THEN INFINITY ELSE a + b

\* ln r, in ten-thousandths, of the reserves the snapshots hold.
Ln(r) ==
  CASE r = 900 -> 68024
    [] r = 1000 -> 69078
    [] r = 1100 -> 70031
    [] r = 1200 -> 70901

\* ln(1 - fee), in ten-thousandths, fee in thousandths.
LnOneMinusFee(fee) ==
  CASE fee = 0 -> 0
    [] fee = 3 -> -30

\* u256_to_f64: wei to tokens.  A snapshot holds its reserves as the number
\* of whole tokens (multiples of 10^18 wei), which is the value in tokens.
u256_to_f64(value) == value


\* ------------------------------------------------------------- Pool Edge

\* PoolEdge::calculate_log_weights: <<weight_a_to_b, weight_b_to_a>>.
\* rate_a_to_b = reserves_b * (1 - fee) / reserves_a, weight = -ln(rate);
\* a positive rate of the model's reserves is always above EPSILON.
calculate_log_weights(reserves_a, reserves_b, fee) ==
  IF reserves_a <= EPSILON \/ reserves_b <= EPSILON
  THEN <<INFINITY, INFINITY>>
  ELSE <<-(Ln(reserves_b) + LnOneMinusFee(fee) - Ln(reserves_a)),
         -(Ln(reserves_a) + LnOneMinusFee(fee) - Ln(reserves_b))>>

\* PoolEdge::new
PoolEdge(pool_address, token_a, token_b, reserves_a, reserves_b, fee) ==
  LET w == calculate_log_weights(reserves_a, reserves_b, fee) IN
  [pool_address |-> pool_address, token_a |-> token_a, token_b |-> token_b,
   reserves_a |-> reserves_a, reserves_b |-> reserves_b, fee |-> fee,
   weight_a_to_b |-> w[1], weight_b_to_a |-> w[2]]

\* PoolEdge::update_reserves
update_reserves(pool, reserves_a, reserves_b) ==
  LET w == calculate_log_weights(reserves_a, reserves_b, pool.fee) IN
  [pool EXCEPT !.reserves_a = reserves_a, !.reserves_b = reserves_b,
               !.weight_a_to_b = w[1], !.weight_b_to_a = w[2]]

\* A faulty calculate_output for sensitivity runs: the input amount is not
\* checked.
calculate_output_any_amount(pool, input_amount, token_in) ==
  LET known == token_in = pool.token_a \/ token_in = pool.token_b
      reserve_in == IF token_in = pool.token_a THEN pool.reserves_a
                    ELSE pool.reserves_b
      reserve_out == IF token_in = pool.token_a THEN pool.reserves_b
                     ELSE pool.reserves_a
      input_with_fee == input_amount * (1000 - pool.fee)
  IN IF ~known THEN <<FALSE, 0>>
     ELSE IF reserve_in <= 0 \/ reserve_out <= 0
     THEN <<FALSE, 0>>
     ELSE <<TRUE, (input_with_fee * reserve_out)
                    \div (reserve_in * 1000 + input_with_fee)>>

\* PoolEdge::calculate_output: <<TRUE, output>> for Some(output), else
\* <<FALSE, 0>>.  output = input*(1-fee)*reserve_out /
\* (reserve_in + input*(1-fee)), numerator and denominator times 1000.
calculate_output(pool, input_amount, token_in) ==
  LET known == token_in = pool.token_a \/ token_in = pool.token_b
      reserve_in == IF token_in = pool.token_a THEN pool.reserves_a
                    ELSE pool.reserves_b
      reserve_out == IF token_in = pool.token_a THEN pool.reserves_b
                     ELSE pool.reserves_a
      input_with_fee == input_amount * (1000 - pool.fee)
  IN IF ~known THEN <<FALSE, 0>>
     ELSE IF reserve_in <= 0 \/ reserve_out <= 0 \/ input_amount <= 0
     THEN <<FALSE, 0>>
     ELSE <<TRUE, (input_with_fee * reserve_out)
                    \div (reserve_in * 1000 + input_with_fee)>>

\* DirectedEdge::new, with the end nodes petgraph keeps for the edge.
DirectedEdge(source, target, pool, from_token, to_token, weight) ==
  [source |-> source, target |-> target, pool_address |-> pool.pool_address,
   from_token |-> from_token, to_token |-> to_token, weight |-> weight,
   original_pool |-> pool]

\* ------------------------------------------------------------ Token Graph

VARIABLES
  nodes,          \* graph: the node weights, nodes[i] the token of node i
  edges,          \* graph: the directed edges, in the order they were added
  token_to_node,  \* token -> node index, 0 for a token with no node
  n_pools,        \* add_pool calls so far
  n_updates,      \* update_pool calls so far
  last_call,      \* history: the last add_token / add_pool / update_pool call, <<>> if none
  pc              \* where the control loop is

graph_vars == <<nodes, edges, token_to_node, n_pools, n_updates, last_call>>

wmnt_token == "WMNT"

\* Graph::node_count / Graph::edge_count
node_count == Len(nodes)
edge_count == Len(edges)

\* Graph::find_edge(a, b): the index of an edge from a to b, 0 for None.
\* petgraph walks a's outgoing list from its head, the edge added last.
find_edge(es, a, b) ==
  LET hits == {i \in 1..Len(es) : es[i].source = a /\ es[i].target = b}
  IN IF hits = {} THEN 0 ELSE CHOOSE i \in hits : \A j \in hits : j <= i

\* Graph::edges(a): the indices of a's outgoing edges in iteration order
\* (the edge added last comes first).
RECURSIVE OutFrom(_, _, _)
OutFrom(es, a, i) ==
  IF i = 0 THEN <<>>
  ELSE IF es[i].source = a THEN <<i>> \o OutFrom(es, a, i - 1)
  ELSE OutFrom(es, a, i - 1)
out_edges(es, a) == OutFrom(es, a, Len(es))

\* A faulty add_token for sensitivity runs: the token map is not consulted
\* and every call makes a node.
add_token_always_new(ns, t2n, token) ==
  [nodes |-> Append(ns, token),
   token_to_node |-> [t2n EXCEPT ![token] = Len(ns) + 1]]

\* TokenGraph::add_token on (nodes, token_to_node): the graph after the call.
add_token(ns, t2n, token) ==
  IF t2n[token] # 0 THEN [nodes |-> ns, token_to_node |-> t2n]
  ELSE [nodes |-> Append(ns, token),
        token_to_node |-> [t2n EXCEPT ![token] = Len(ns) + 1]]

\* A faulty add_pool for sensitivity runs: only the edge from token_a to
\* token_b is inserted.
add_pool_one_way(ns, t2n, es, pool_reserves, fee) ==
  LET g1 == add_token(ns, t2n, pool_reserves.token_a)
      token_a_idx == g1.token_to_node[pool_reserves.token_a]
      g2 == add_token(g1.nodes, g1.token_to_node, pool_reserves.token_b)
      token_b_idx == g2.token_to_node[pool_reserves.token_b]
      pool_edge == PoolEdge(pool_reserves.pool_address,
                            pool_reserves.token_a, pool_reserves.token_b,
                            u256_to_f64(pool_reserves.reserve_a),
                            u256_to_f64(pool_reserves.reserve_b), fee)
      edge_a_to_b == DirectedEdge(token_a_idx, token_b_idx, pool_edge,
                                  pool_reserves.token_a, pool_reserves.token_b,
                                  pool_edge.weight_a_to_b)
  IN [nodes |-> g2.nodes, token_to_node |-> g2.token_to_node,
      edges |-> es \o <<edge_a_to_b>>]

\* TokenGraph::add_pool: nodes, token_to_node and edges after the call.
add_pool(ns, t2n, es, pool_reserves, fee) ==
  LET g1 == add_token(ns, t2n, pool_reserves.token_a)
      token_a_idx == g1.token_to_node[pool_reserves.token_a]
      g2 == add_token(g1.nodes, g1.token_to_node, pool_reserves.token_b)
      token_b_idx == g2.token_to_node[pool_reserves.token_b]
      pool_edge == PoolEdge(pool_reserves.pool_address,
                            pool_reserves.token_a, pool_reserves.token_b,
                            u256_to_f64(pool_reserves.reserve_a),
                            u256_to_f64(pool_reserves.reserve_b), fee)
      edge_a_to_b == DirectedEdge(token_a_idx, token_b_idx, pool_edge,
                                  pool_reserves.token_a, pool_reserves.token_b,
                                  pool_edge.weight_a_to_b)
      edge_b_to_a == DirectedEdge(token_b_idx, token_a_idx, pool_edge,
                                  pool_reserves.token_b, pool_reserves.token_a,
                                  pool_edge.weight_b_to_a)
  IN [nodes |-> g2.nodes, token_to_node |-> g2.token_to_node,
      edges |-> es \o <<edge_a_to_b, edge_b_to_a>>]

\* One arm of update_pool: the edge found from `from` to `to` gets the
\* snapshot's reserves in the snapshot's order, and the weight named.
UpdateEdge(es, from, to, reserves_a, reserves_b, a_to_b) ==
  LET e == find_edge(es, from, to) IN
  IF e = 0 THEN es
  ELSE LET pool == update_reserves(es[e].original_pool, reserves_a, reserves_b)
       IN [es EXCEPT ![e].original_pool = pool,
                     ![e].weight = IF a_to_b THEN pool.weight_a_to_b
                                   ELSE pool.weight_b_to_a]

\* A faulty update_pool for sensitivity runs: the edges of a pool reported
\* with an empty reserve are removed from the graph.
update_pool_remove_drained(t2n, es, pool_reserves) ==
  LET token_a_idx == t2n[pool_reserves.token_a]
      token_b_idx == t2n[pool_reserves.token_b]
      reserves_a == u256_to_f64(pool_reserves.reserve_a)
      reserves_b == u256_to_f64(pool_reserves.reserve_b)
      joins(e) == {e.source, e.target} = {token_a_idx, token_b_idx}
  IN IF token_a_idx = 0 \/ token_b_idx = 0 THEN es
     ELSE IF reserves_a = 0 \/ reserves_b = 0
     THEN SelectSeq(es, LAMBDA e : ~joins(e))
     ELSE UpdateEdge(
            UpdateEdge(es, token_a_idx, token_b_idx, reserves_a, reserves_b, TRUE),
            token_b_idx, token_a_idx, reserves_a, reserves_b, FALSE)

\* TokenGraph::update_pool: the edges after the call.
update_pool(t2n, es, pool_reserves) ==
  LET token_a_idx == t2n[pool_reserves.token_a]
      token_b_idx == t2n[pool_reserves.token_b]
      reserves_a == u256_to_f64(pool_reserves.reserve_a)
      reserves_b == u256_to_f64(pool_reserves.reserve_b)
  IN IF token_a_idx = 0 \/ token_b_idx = 0 THEN es
     ELSE UpdateEdge(
            UpdateEdge(es, token_a_idx, token_b_idx, reserves_a, reserves_b, TRUE),
            token_b_idx, token_a_idx, reserves_a, reserves_b, FALSE)

\* TokenGraph::get_pool_info: <<TRUE, pool>> for Some(&pool), else <<FALSE>>.
get_pool_info(t2n, es, token_a, token_b) ==
  IF t2n[token_a] = 0 \/ t2n[token_b] = 0 THEN <<FALSE>>
  ELSE LET e == find_edge(es, t2n[token_a], t2n[token_b])
       IN IF e = 0 THEN <<FALSE>> ELSE <<TRUE, es[e].original_pool>>

\* ----------------------------------------------------------- Cycle Finder

VARIABLES
  max_hops,             \* the max_hops of the running find_arbitrage_cycles
  caller,               \* who called it: "find_all_opportunities" | "find_arbitrage_cycles"
  dist,                 \* SPFA: distance of each node
  predecessor,          \* SPFA: predecessor of each node, 0 for None
  in_queue,             \* SPFA: whether each node is queued
  queue_count,          \* SPFA: how often each node was enqueued
  queue,                \* SPFA: the FIFO queue of nodes
  negative_cycle_nodes, \* SPFA: the flagged nodes
  relaxed_through,      \* history: the edges a distance was updated through
  to_extract,           \* extract_negative_cycles: flagged nodes not yet visited
  node_cycles,          \* extract_negative_cycles: the node paths kept so far
  cycles                \* find_arbitrage_cycles: the ArbitragePaths returned

search_vars ==
  <<max_hops, caller, dist, predecessor, in_queue, queue_count, queue,
    negative_cycle_nodes, relaxed_through, to_extract, node_cycles, cycles>>

\* A faulty relaxation for sensitivity runs: a node is flagged as soon as it
\* is enqueued.
RelaxEdge_flag_first(st, es, n, current, e) ==
  LET neighbor == es[e].target
      new_dist == FAdd(st.dist[current], es[e].weight)
  IN IF new_dist < st.dist[neighbor]
     THEN LET enq == ~st.in_queue[neighbor]
              cnt == IF enq THEN st.queue_count[neighbor] + 1
                     ELSE st.queue_count[neighbor]
          IN [dist |-> [st.dist EXCEPT ![neighbor] = new_dist],
              predecessor |-> [st.predecessor EXCEPT ![neighbor] = current],
              in_queue |-> [st.in_queue EXCEPT ![neighbor] = TRUE],
              queue_count |-> [st.queue_count EXCEPT ![neighbor] = cnt],
              queue |-> IF enq THEN Append(st.queue, neighbor) ELSE st.queue,
              negative_cycle_nodes |->
                IF enq /\ cnt >= 1 THEN st.negative_cycle_nodes \cup {neighbor}
                ELSE st.negative_cycle_nodes,
              relaxed_through |-> st.relaxed_through \cup {e}]
     ELSE st

\* A faulty relaxation for sensitivity runs: the neighbor is pushed on the
\* queue whether or not it is queued already.
RelaxEdge_enqueue_always(st, es, n, current, e) ==
  LET neighbor == es[e].target
      new_dist == FAdd(st.dist[current], es[e].weight)
  IN IF new_dist < st.dist[neighbor]
     THEN LET cnt == st.queue_count[neighbor] + 1
          IN [dist |-> [st.dist EXCEPT ![neighbor] = new_dist],
              predecessor |-> [st.predecessor EXCEPT ![neighbor] = current],
              in_queue |-> [st.in_queue EXCEPT ![neighbor] = TRUE],
              queue_count |-> [st.queue_count EXCEPT ![neighbor] = cnt],
              queue |-> Append(st.queue, neighbor),
              negative_cycle_nodes |->
                IF cnt > n THEN st.negative_cycle_nodes \cup {neighbor}
                ELSE st.negative_cycle_nodes,
              relaxed_through |-> st.relaxed_through \cup {e}]
     ELSE st

\* The relaxation of one outgoing edge (the body of `for edge_ref in
\* self.graph.edges(current)`), on the SPFA state st.
RelaxEdge(st, es, n, current, e) ==
  LET neighbor == es[e].target
      new_dist == FAdd(st.dist[current], es[e].weight)
  IN IF new_dist < st.dist[neighbor]
     THEN LET enq == ~st.in_queue[neighbor]
              cnt == IF enq THEN st.queue_count[neighbor] + 1
                     ELSE st.queue_count[neighbor]
          IN [dist |-> [st.dist EXCEPT ![neighbor] = new_dist],
              predecessor |-> [st.predecessor EXCEPT ![neighbor] = current],
              in_queue |-> [st.in_queue EXCEPT ![neighbor] = TRUE],
              queue_count |-> [st.queue_count EXCEPT ![neighbor] = cnt],
              queue |-> IF enq THEN Append(st.queue, neighbor) ELSE st.queue,
              negative_cycle_nodes |->
                IF enq /\ cnt > n THEN st.negative_cycle_nodes \cup {neighbor}
                ELSE st.negative_cycle_nodes,
              relaxed_through |-> st.relaxed_through \cup {e}]
     ELSE st

\* All outgoing edges of current, in iteration order.
RECURSIVE RelaxAll(_, _, _, _, _)
RelaxAll(st, es, n, current, out) ==
  IF out = <<>> THEN st
  ELSE RelaxAll(RelaxEdge(st, es, n, current, Head(out)), es, n, current,
                Tail(out))

\* A faulty loop body for sensitivity runs: a node whose enqueue counter
\* exceeds the node count still relaxes its edges.
SpfaLoopBody_no_cutoff(st, es, n) ==
  LET current == Head(st.queue)
      popped == [st EXCEPT !.queue = Tail(st.queue),
                           !.in_queue[current] = FALSE]
  IN RelaxAll(popped, es, n, current, out_edges(es, current))

\* One turn of the SPFA main loop (`while let Some(current) = pop_front()`).
SpfaLoopBody(st, es, n) ==
  LET current == Head(st.queue)
      popped == [st EXCEPT !.queue = Tail(st.queue),
                           !.in_queue[current] = FALSE]
  IN IF popped.queue_count[current] > n
     THEN [popped EXCEPT !.negative_cycle_nodes = @ \cup {current}]
     ELSE RelaxAll(popped, es, n, current, out_edges(es, current))

\* A faulty start for sensitivity runs: the arrays have one slot too few.
SpfaStart_short_arrays(n, source) ==
  [dist |-> [i \in 1..(n - 1) |-> IF i = source THEN 0 ELSE INFINITY],
   predecessor |-> [i \in 1..(n - 1) |-> 0],
   in_queue |-> [i \in 1..(n - 1) |-> i = source],
   queue_count |-> [i \in 1..(n - 1) |-> IF i = source THEN 1 ELSE 0],
   queue |-> <<source>>,
   negative_cycle_nodes |-> {},
   relaxed_through |-> {}]

\* The SPFA state at the start of spfa_detect_negative_cycles.
SpfaStart(n, source) ==
  [dist |-> [i \in 1..n |-> IF i = source THEN 0 ELSE INFINITY],
   predecessor |-> [i \in 1..n |-> 0],
   in_queue |-> [i \in 1..n |-> i = source],
   queue_count |-> [i \in 1..n |-> IF i = source THEN 1 ELSE 0],
   queue |-> <<source>>,
   negative_cycle_nodes |-> {},
   relaxed_through |-> {}]

\* A node path is a sequence of node indices; <<>> stands for None.
Range(q) == {q[i] : i \in 1..Len(q)}
Last(q) == q[Len(q)]
\* iter().position(|x| x == v): the first index of v in q.
Position(q, v) == CHOOSE i \in 1..Len(q) : q[i] = v /\ \A j \in 1..(i - 1) : q[j] # v

\* A faulty rearrangement for sensitivity runs: the cycle is not rotated but
\* wrapped in the base token, as a cycle without the base token would be.
rearrange_cycle_with_wmnt_wrapped(cycle, wmnt_node) ==
  IF wmnt_node \notin Range(cycle) THEN <<>>
  ELSE <<wmnt_node>> \o cycle \o <<wmnt_node>>

\* TokenGraph::rearrange_cycle_with_wmnt
rearrange_cycle_with_wmnt(cycle, wmnt_node) ==
  IF wmnt_node \notin Range(cycle) THEN <<>>
  ELSE LET wmnt_pos == Position(cycle, wmnt_node)
           \* cycle.rotate_left(wmnt_pos - 1), positions counted from 1
           rotated == SubSeq(cycle, wmnt_pos, Len(cycle))
                        \o SubSeq(cycle, 1, wmnt_pos - 1)
       IN IF Last(rotated) # wmnt_node THEN Append(rotated, wmnt_node)
          ELSE rotated

\* TokenGraph::extend_cycle_to_wmnt, from the i-th node of the cycle on.
RECURSIVE ExtendFrom(_, _, _, _, _)
ExtendFrom(es, cycle, wmnt_node, mh, i) ==
  IF i > Len(cycle) THEN <<>>
  ELSE IF find_edge(es, wmnt_node, cycle[i]) # 0
            /\ find_edge(es, Last(cycle), wmnt_node) # 0
            /\ Len(cycle) + 2 <= mh + 1
       THEN <<wmnt_node>> \o cycle \o <<wmnt_node>>
       ELSE ExtendFrom(es, cycle, wmnt_node, mh, i + 1)
extend_cycle_to_wmnt(es, cycle, wmnt_node, mh) ==
  ExtendFrom(es, cycle, wmnt_node, mh, 1)

\* TokenGraph::reconstruct_cycle: the loop, with path and current.
RECURSIVE ReconstructLoop(_, _, _, _, _, _)
ReconstructLoop(es, pred, wmnt_node, mh, path, current) ==
  IF current \in Range(path)
  THEN LET cycle_start_pos == Position(path, current)
           cycle_path == Append(SubSeq(path, cycle_start_pos, Len(path)), current)
       IN IF wmnt_node \notin Range(cycle_path)
          THEN extend_cycle_to_wmnt(es, cycle_path, wmnt_node, mh)
          ELSE rearrange_cycle_with_wmnt(cycle_path, wmnt_node)
  ELSE LET path1 == Append(path, current)
       IN IF pred[current] = 0 THEN <<>>
          ELSE IF Len(path1) > mh * 2 THEN <<>>
          ELSE ReconstructLoop(es, pred, wmnt_node, mh, path1, pred[current])
reconstruct_cycle(es, start_node, pred, wmnt_node, mh) ==
  ReconstructLoop(es, pred, wmnt_node, mh, <<>>, start_node)

\* A faulty filter for sensitivity runs: the lower length bound is missing.
KeepCycle_no_min(cycle_path, wmnt_node, mh) ==
  /\ cycle_path # <<>>
  /\ Len(cycle_path) <= mh + 1
  /\ Head(cycle_path) = wmnt_node
  /\ cycle_path[Len(cycle_path)] = wmnt_node

\* The filter of extract_negative_cycles on a reconstructed path.
KeepCycle(cycle_path, wmnt_node, mh) ==
  /\ cycle_path # <<>>
  /\ Len(cycle_path) >= 4
  /\ Len(cycle_path) <= mh + 1
  /\ Head(cycle_path) = wmnt_node
  /\ Last(cycle_path) = wmnt_node

\* ArbitragePath::new
ArbitragePath(tokens, pools) ==
  [tokens |-> tokens, pools |-> pools,
   path_type |-> CASE Len(tokens) = 3 -> "ThreeHop"
                   [] Len(tokens) = 4 -> "FourHop"
                   [] OTHER -> "Custom"]

\* The pools of the hops of a node path that have an edge, in hop order.
RECURSIVE PoolsOf(_, _, _)
PoolsOf(es, node_path, i) ==
  IF i >= Len(node_path) THEN <<>>
  ELSE LET e == find_edge(es, node_path[i], node_path[i + 1])
       IN (IF e = 0 THEN <<>> ELSE <<es[e].pool_address>>)
            \o PoolsOf(es, node_path, i + 1)

\* A faulty conversion for sensitivity runs: the pool count is not compared
\* with the token count.
convert_node_path_to_arbitrage_path_unchecked(ns, es, node_path) ==
  IF Len(node_path) < 3 THEN <<>>
  ELSE LET tokens == [i \in 1..Len(node_path) |-> ns[node_path[i]]]
           pools == PoolsOf(es, node_path, 1)
       IN <<ArbitragePath(tokens, pools)>>

\* TokenGraph::convert_node_path_to_arbitrage_path: <<path>> for Some(path),
\* <<>> for None.
convert_node_path_to_arbitrage_path(ns, es, node_path) ==
  IF Len(node_path) < 3 THEN <<>>
  ELSE LET tokens == [i \in 1..Len(node_path) |-> ns[node_path[i]]]
           pools == PoolsOf(es, node_path, 1)
       IN IF Len(pools) = Len(tokens) - 1
          THEN <<ArbitragePath(tokens, pools)>> ELSE <<>>

\* The loop of find_arbitrage_cycles over the node paths.
RECURSIVE ConvertAll(_, _, _)
ConvertAll(ns, es, paths) ==
  IF paths = <<>> THEN <<>>
  ELSE convert_node_path_to_arbitrage_path(ns, es, Head(paths))
         \o ConvertAll(ns, es, Tail(paths))

\* --------------------------------------------------------- Path Evaluator

\* Gas units of a 3-hop and of a 4-hop path, in units of 10,000 gas.
GAS_UNITS_3_HOPS == 3
GAS_UNITS_4_HOPS == 5

\* A faulty quotient for sensitivity runs: the fee is added to the input.
swap_quotient_fee_added(x_reserve, y_reserve, dx, fee) ==
  LET dx_after_fee == dx * (1000 + fee)
  IN <<y_reserve * dx_after_fee, x_reserve * 1000 + dx_after_fee>>

\* The quotient of math::swap, <<numerator, denominator>>, both times 1000:
\* (y_reserve * dx_after_fee) / (x_reserve + dx_after_fee), fee in thousandths.
swap_quotient(x_reserve, y_reserve, dx, fee) ==
  LET dx_after_fee == dx * (1000 - fee)
  IN <<y_reserve * dx_after_fee, x_reserve * 1000 + dx_after_fee>>

\* math::swap, fee in thousandths; the quotient in whole tokens.
swap(x_reserve, y_reserve, dx, fee) ==
  IF dx <= 0 \/ x_reserve <= 0 \/ y_reserve <= 0 THEN 0
  ELSE LET q == swap_quotient(x_reserve, y_reserve, dx, fee)
       IN q[1] \div q[2]

\* A faulty profit for sensitivity runs: the input is not subtracted.
arbitrage_profit_output_only(dx, pools, fee) ==
  IF Len(pools) # 3 THEN -1
  ELSE LET dy1 == swap(pools[1][1], pools[1][2], dx, fee)
           dy2 == swap(pools[2][1], pools[2][2], dy1, fee)
           dy3 == swap(pools[3][1], pools[3][2], dy2, fee)
       IN dy3

\* math::arbitrage_profit; pools is a sequence of <<x, y>> reserve pairs.
arbitrage_profit(dx, pools, fee) ==
  IF Len(pools) # 3 THEN -1
  ELSE LET dy1 == swap(pools[1][1], pools[1][2], dx, fee)
           dy2 == swap(pools[2][1], pools[2][2], dy1, fee)
           dy3 == swap(pools[3][1], pools[3][2], dy2, fee)
       IN dy3 - dx

\* A faulty round for sensitivity runs: m2 lies one token above right, up to
\* the whole reserve of the first hop.
TernaryRound_m2_above(lr, pools, fee) ==
  LET left == lr[1]
      right == lr[2]
      third == (right - left + 1) \div 3
      m1 == left + third
      m2 == IF right < pools[1][1] THEN right + 1 ELSE right
      p1 == arbitrage_profit(m1, pools, fee)
      p2 == arbitrage_profit(m2, pools, fee)
  IN IF p1 < p2 THEN <<m1, right>> ELSE <<left, m2>>

\* One round of the ternary search of find_best_input on <<left, right>>.
\* In f64 every round shortens the interval to two thirds, down to a width
\* far below one token after the rounds; the third is rounded to the nearest
\* whole token here, so that the rounds shorten the interval of whole tokens
\* down to a width of at most one token, with m1 <= m2 throughout.
TernaryRound(lr, pools, fee) ==
  LET left == lr[1]
      right == lr[2]
      third == (right - left + 1) \div 3
      m1 == left + third
      m2 == right - third
      p1 == arbitrage_profit(m1, pools, fee)
      p2 == arbitrage_profit(m2, pools, fee)
  IN IF p1 < p2 THEN <<m1, right>> ELSE <<left, m2>>

\* `for _ in 0..iterations`: the rounds left.  A round that leaves the
\* interval as it is (of a width below two tokens) leaves it so in every later
\* round, and ends the evaluation here.
RECURSIVE TernaryRounds(_, _, _, _)
TernaryRounds(lr, pools, fee, iterations) ==
  IF iterations = 0 THEN lr
  ELSE LET next == TernaryRound(lr, pools, fee)
       IN IF next = lr THEN lr
          ELSE TernaryRounds(next, pools, fee, iterations - 1)

\* math::find_best_input: <<best_input, best_profit>>.
find_best_input(pools, fee, iterations) ==
  LET lr == TernaryRounds(<<0, (pools[1][1] * 999) \div 1000>>, pools, fee,
                          iterations)
      best_input == (lr[1] + lr[2]) \div 2
  IN <<best_input, arbitrage_profit(best_input, pools, fee)>>

\* The reserve pair of one hop, as cycle_to_pools reads it from the pool.
HopReserves(pool_info, token_in) ==
  IF pool_info.token_a = token_in
  THEN <<pool_info.reserves_a, pool_info.reserves_b>>
  ELSE <<pool_info.reserves_b, pool_info.reserves_a>>

\* The loop of cycle_to_pools from hop i on: <<ok, pairs>>.
RECURSIVE HopsFrom(_, _, _, _)
HopsFrom(t2n, es, tokens, i) ==
  IF i >= Len(tokens) THEN <<TRUE, <<>>>>
  ELSE LET pool_info == get_pool_info(t2n, es, tokens[i], tokens[i + 1])
       IN IF ~pool_info[1] THEN <<FALSE, <<>>>>
          ELSE LET rest == HopsFrom(t2n, es, tokens, i + 1)
               IN <<rest[1], <<HopReserves(pool_info[2], tokens[i])>> \o rest[2]>>

\* MultiPathAnalyzer::cycle_to_pools: <<TRUE, pools>> for Some, <<FALSE, _>>
\* for None.  A path that does not end at WMNT gets the closing pool.
cycle_to_pools(t2n, es, cycle) ==
  LET hops == HopsFrom(t2n, es, cycle.tokens, 1)
      last_token == Last(cycle.tokens)
  IN IF ~hops[1] THEN <<FALSE, <<>>>>
     ELSE IF last_token # wmnt_token
     THEN LET pool_info == get_pool_info(t2n, es, last_token, wmnt_token)
          IN IF ~pool_info[1] THEN <<FALSE, <<>>>>
             ELSE <<TRUE, Append(hops[2], HopReserves(pool_info[2], last_token))>>
     ELSE hops

\* ArbitragePath::expected_gas_units
expected_gas_units(path) ==
  CASE path.path_type = "ThreeHop" -> GAS_UNITS_3_HOPS
    [] path.path_type = "FourHop" -> GAS_UNITS_4_HOPS
    [] OTHER -> GAS_UNITS_3_HOPS + Len(path.tokens)

\* MultiPathAnalyzer::calculate_gas_cost
calculate_gas_cost(cycle) == expected_gas_units(cycle) * Config.gas_price

\* A faulty evaluation for sensitivity runs: the percentage is taken from the
\* gross profit and the output from the net profit.
analyze_cycle_gross_percentage(t2n, es, cycle, iterations) ==
  LET pools == cycle_to_pools(t2n, es, cycle) IN
  IF ~pools[1] THEN <<>>
  ELSE LET best == find_best_input(pools[2], Config.dex_fee, iterations)
           optimal_input == best[1]
           gross_profit == best[2]
           net_profit == gross_profit - calculate_gas_cost(cycle)
       IN << [optimal_input |-> optimal_input,
              final_output |-> optimal_input + net_profit,
              gross_profit |-> gross_profit,
              net_profit |-> net_profit,
              profit_percentage |->
                IF optimal_input > 0 THEN (gross_profit * 100) \div optimal_input
                ELSE 0,
              search_method |-> "multi_path_ternary",
              path |-> <<cycle>>] >>

\* MultiPathAnalyzer::analyze_cycle: <<opportunity>> for Some, <<>> for None.
analyze_cycle(t2n, es, cycle, iterations) ==
  LET pools == cycle_to_pools(t2n, es, cycle) IN
  IF ~pools[1] THEN <<>>
  ELSE LET best == find_best_input(pools[2], Config.dex_fee, iterations)
           optimal_input == best[1]
           gross_profit == best[2]
           net_profit == gross_profit - calculate_gas_cost(cycle)
       IN << [optimal_input |-> optimal_input,
              final_output |-> optimal_input + gross_profit,
              gross_profit |-> gross_profit,
              net_profit |-> net_profit,
              profit_percentage |->
                IF optimal_input > 0 THEN (net_profit * 100) \div optimal_input
                ELSE 0,
              search_method |-> "multi_path_ternary",
              path |-> <<cycle>>] >>

\* ArbitrageOpportunity::is_profitable
is_profitable(opp) == opp.net_profit > 0

\* ArbitrageOpportunity::hop_count
hop_count(opp) ==
  IF opp.path = <<>> THEN 0
  ELSE IF Len(opp.path[1].tokens) = 0 THEN 0
  ELSE Len(opp.path[1].tokens) - 1

\* The gas units ArbitrageOpportunity::gas_cost charges, by hop count.
gas_cost_units(opp) ==
  CASE hop_count(opp) = 3 -> GAS_UNITS_3_HOPS
    [] hop_count(opp) = 4 -> GAS_UNITS_4_HOPS
    [] OTHER -> GAS_UNITS_3_HOPS

\* ArbitrageOpportunity::gas_cost at the configured gas price.
opportunity_gas_cost(opp) == gas_cost_units(opp) * Config.gas_price

\* Iterator::max_by on net_profit: the last of the greatest, <<>> if empty.
RECURSIVE MaxByNetProfit(_, _)
MaxByNetProfit(opps, best) ==
  IF opps = <<>> THEN best
  ELSE MaxByNetProfit(Tail(opps),
         IF best = <<>> \/ Head(opps).net_profit >= best[1].net_profit
         THEN <<Head(opps)>> ELSE best)

RECURSIVE SumProfitable(_)
SumProfitable(opps) ==
  IF opps = <<>> THEN 0
  ELSE (IF is_profitable(Head(opps)) THEN Head(opps).net_profit ELSE 0)
         + SumProfitable(Tail(opps))

\* MultiPathOpportunity::new (analysis_time_ms is not modelled).
MultiPathOpportunity(opportunities) ==
  [opportunities |-> opportunities,
   best_opportunity |-> MaxByNetProfit(opportunities, <<>>),
   total_profit |-> SumProfitable(opportunities)]

\* ------------------------------------------------------ Opportunity Ranker

\* OptimizationStrategy
Strategies == {"MaxProfit", "MaxProfitPercent", "MinRisk", "BalancedRiskReturn"}

\* partial_cmp of two numbers: -1 Less, 0 Equal, 1 Greater.
Cmp(a, b) == IF a < b THEN -1 ELSE IF a > b THEN 1 ELSE 0

\* A faulty score comparison for sensitivity runs: net_profit * hop_count^2.
BalancedCmp_product(a, b) ==
  Cmp(a.net_profit * hop_count(a) * hop_count(a),
      b.net_profit * hop_count(b) * hop_count(b))

\* partial_cmp of the scores net_profit / hop_count^2 of two profitable
\* opportunities: a division by 0 hops gives +infinity, otherwise the
\* quotients compare as the cross products.
BalancedCmp(a, b) ==
  LET ha == hop_count(a) * hop_count(a)
      hb == hop_count(b) * hop_count(b)
  IN IF ha = 0 /\ hb = 0 THEN 0
     ELSE IF ha = 0 THEN 1
     ELSE IF hb = 0 THEN -1
     ELSE Cmp(a.net_profit * hb, b.net_profit * ha)

\* The comparison closure select_best gives to max_by / min_by.
StrategyCmp(strategy, a, b) ==
  CASE strategy = "MaxProfit" -> Cmp(a.net_profit, b.net_profit)
    [] strategy = "MaxProfitPercent" -> Cmp(a.profit_percentage, b.profit_percentage)
    [] strategy = "MinRisk" -> Cmp(hop_count(a), hop_count(b))
    [] strategy = "BalancedRiskReturn" -> BalancedCmp(a, b)

\* A faulty scan for sensitivity runs: every strategy keeps the least.
Replaces_least(strategy, best, x) == StrategyCmp(strategy, best, x) = 1

\* Whether the scan replaces the element kept so far (best) by the next one
\* (x): max_by keeps the last of the greatest, min_by the first of the least.
Replaces(strategy, best, x) ==
  IF strategy = "MinRisk" THEN StrategyCmp(strategy, best, x) = 1
  ELSE StrategyCmp(strategy, best, x) # 1

\* .filter(|opp| opp.is_profitable()) followed by max_by / min_by.
RECURSIVE SelectScan(_, _, _)
SelectScan(strategy, opps, best) ==
  IF opps = <<>> THEN best
  ELSE LET x == Head(opps)
       IN SelectScan(strategy, Tail(opps),
            IF ~is_profitable(x) THEN best
            ELSE IF best = <<>> THEN <<x>>
            ELSE IF Replaces(strategy, best[1], x) THEN <<x>> ELSE best)

\* StrategySelector::select_best: <<opportunity>> for Some, <<>> for None.
select_best(opportunities, strategy) ==
  IF opportunities = <<>> THEN <<>>
  ELSE SelectScan(strategy, opportunities, <<>>)

VARIABLES
  sel_opportunities,  \* select_best: the collection given
  sel_strategy,       \* select_best: the strategy given
  sel_result          \* select_best: <<"pending">> or <<"returned", r>>

sel_vars == <<sel_opportunities, sel_strategy, sel_result>>

NoSelection ==
  /\ sel_opportunities = <<>> /\ sel_strategy = "none" /\ sel_result = <<"pending">>

VARIABLES
  call,    \* a call of a function of the core on its own: its name and arguments
  locals,  \* the locals of the running call
  ret      \* <<"pending">> or <<"returned", value>>

call_vars == <<call, locals, ret>>

NoCall == call = <<>> /\ locals = <<>> /\ ret = <<>>

VARIABLES
  fetch,    \* a call of fetch_all_reserves_with_retry: arguments, locals, return
  batch,    \* a call of BatchReservesFetcher::fetch_all_reserves, then
            \* MultiPathAnalyzer::update_pool_reserves on its result
  mp_loop,  \* run_multi_path_arbitrage: the locals of its poll loop
  tri_loop  \* the triangular monitor of main: its cache and its poll loop

io_vars == <<fetch, batch, mp_loop, tri_loop>>

NoIo == fetch = <<>> /\ batch = <<>> /\ mp_loop = <<>> /\ tri_loop = <<>>

VARIABLES
  eval_slots,  \* find_all_opportunities: candidate index -> the worker's outcome
  eval_order,  \* history: the candidate indices in the order the workers finished
  result       \* find_all_opportunities: <<MultiPathOpportunity>> once returned

eval_vars == <<eval_slots, eval_order, result>>

vars == <<nodes, edges, token_to_node, n_pools, n_updates, last_call, pc,
          max_hops, caller, dist, predecessor, in_queue, queue_count, queue,
          negative_cycle_nodes, relaxed_through, to_extract, node_cycles,
          cycles, eval_slots, eval_order, result, call, locals, ret,
          sel_opportunities, sel_strategy,
          sel_result, fetch, batch, mp_loop, tri_loop>>

\* The max_hops find_all_opportunities and get_all_paths pass.
AnalyzerMaxHops == 4
\* Other max_hops a caller of find_arbitrage_cycles passes.
OtherMaxHops == {3, 5}

NoSearch ==
  /\ max_hops = 0 /\ caller = "none"
  /\ dist = <<>> /\ predecessor = <<>> /\ in_queue = <<>>
  /\ queue_count = <<>> /\ queue = <<>> /\ negative_cycle_nodes = {}
  /\ relaxed_through = {} /\ to_extract = {} /\ node_cycles = <<>>
  /\ cycles = <<>> /\ eval_slots = <<>> /\ eval_order = <<>> /\ result = <<>>

\* TokenGraph::new, MultiPathAnalyzer::new
Init ==
  /\ nodes = <<>> /\ edges = <<>>
  /\ token_to_node = [t \in Tokens |-> 0]
  /\ n_pools = 0 /\ n_updates = 0
  /\ last_call = <<>>
  /\ pc = "idle"
  /\ NoSearch
  /\ NoSelection
  /\ NoCall
  /\ NoIo

\* load_pools_from_csv: one add_pool.
AddPool(s) ==
  /\ pc = "idle" /\ n_pools < MaxPools
  /\ LET g == add_pool(nodes, token_to_node, edges, s, Config.dex_fee)
     IN /\ nodes' = g.nodes
        /\ token_to_node' = g.token_to_node
        /\ edges' = g.edges
  /\ n_pools' = n_pools + 1
  /\ last_call' = <<"add_pool", s>>
  /\ UNCHANGED <<n_updates, pc, search_vars, eval_vars>>

\* A faulty variant for sensitivity runs: update_pool_reserves does not wait
\* for the call of the analyzer that is in progress.
UpdatePool_any_time(s) ==
  /\ n_updates < MaxUpdates
  /\ edges' = update_pool(token_to_node, edges, s)
  /\ n_updates' = n_updates + 1
  /\ last_call' = <<"update_pool", s>>
  /\ UNCHANGED <<nodes, token_to_node, n_pools, pc, search_vars, eval_vars>>

\* update_pool_reserves: one update_pool.
UpdatePool(s) ==
  /\ pc = "idle" /\ n_updates < MaxUpdates
  /\ edges' = update_pool(token_to_node, edges, s)
  /\ n_updates' = n_updates + 1
  /\ last_call' = <<"update_pool", s>>
  /\ UNCHANGED <<nodes, token_to_node, n_pools, pc, search_vars, eval_vars>>

\* Where a finished find_arbitrage_cycles returns to.
AfterSearch(c) == IF c = "find_all_opportunities" THEN "evaluate" ELSE "done"

\* A faulty variant for sensitivity runs: with no node for the base token the
\* search starts from the first node of the graph.
BeginSearch_no_check(mh, c) ==
  /\ pc = "idle"
  /\ max_hops' = mh /\ caller' = c
  /\ IF node_count = 0
     THEN /\ pc' = AfterSearch(c)
          /\ UNCHANGED <<dist, predecessor, in_queue, queue_count, queue,
                         negative_cycle_nodes, relaxed_through>>
     ELSE LET source == IF token_to_node[wmnt_token] = 0 THEN 1
                        ELSE token_to_node[wmnt_token]
              st == SpfaStart(node_count, source)
          IN /\ pc' = "spfa"
             /\ dist' = st.dist /\ predecessor' = st.predecessor
             /\ in_queue' = st.in_queue /\ queue_count' = st.queue_count
             /\ queue' = st.queue
             /\ negative_cycle_nodes' = st.negative_cycle_nodes
             /\ relaxed_through' = st.relaxed_through
  /\ UNCHANGED <<graph_vars, to_extract, node_cycles, cycles, eval_vars>>

\* find_arbitrage_cycles(mh) up to the start of the SPFA main loop.
BeginSearch(mh, c) ==
  /\ pc = "idle"
  /\ max_hops' = mh /\ caller' = c
  /\ IF token_to_node[wmnt_token] = 0
     THEN /\ pc' = AfterSearch(c)
          /\ UNCHANGED <<dist, predecessor, in_queue, queue_count, queue,
                         negative_cycle_nodes, relaxed_through>>
     ELSE LET st == SpfaStart(node_count, token_to_node[wmnt_token])
          IN /\ pc' = "spfa"
             /\ dist' = st.dist /\ predecessor' = st.predecessor
             /\ in_queue' = st.in_queue /\ queue_count' = st.queue_count
             /\ queue' = st.queue
             /\ negative_cycle_nodes' = st.negative_cycle_nodes
             /\ relaxed_through' = st.relaxed_through
  /\ UNCHANGED <<graph_vars, to_extract, node_cycles, cycles, eval_vars>>

\* MultiPathAnalyzer::find_all_opportunities: the call of the cycle finder.
FindAllOpportunities == BeginSearch(AnalyzerMaxHops, "find_all_opportunities")

\* A direct call of TokenGraph::find_arbitrage_cycles.
FindArbitrageCycles(mh) == BeginSearch(mh, "find_arbitrage_cycles")

\* One turn of the SPFA main loop.
SpfaStep ==
  /\ pc = "spfa" /\ queue # <<>>
  /\ LET st == SpfaLoopBody(
                 [dist |-> dist, predecessor |-> predecessor,
                  in_queue |-> in_queue, queue_count |-> queue_count,
                  queue |-> queue,
                  negative_cycle_nodes |-> negative_cycle_nodes,
                  relaxed_through |-> relaxed_through],
                 edges, node_count)
     IN /\ dist' = st.dist /\ predecessor' = st.predecessor
        /\ in_queue' = st.in_queue /\ queue_count' = st.queue_count
        /\ queue' = st.queue
        /\ negative_cycle_nodes' = st.negative_cycle_nodes
        /\ relaxed_through' = st.relaxed_through
  /\ UNCHANGED <<graph_vars, pc, max_hops, caller, to_extract, node_cycles,
                 cycles, eval_vars>>

\* The queue is empty: spfa_detect_negative_cycles returns None, or goes on
\* to extract_negative_cycles.
SpfaEnd ==
  /\ pc = "spfa" /\ queue = <<>>
  /\ IF negative_cycle_nodes = {}
     THEN /\ pc' = AfterSearch(caller)
          /\ UNCHANGED to_extract
     ELSE /\ pc' = "extract"
          /\ to_extract' = negative_cycle_nodes
  /\ UNCHANGED <<graph_vars, max_hops, caller, dist, predecessor, in_queue,
                 queue_count, queue, negative_cycle_nodes, relaxed_through,
                 node_cycles, cycles, eval_vars>>

\* One turn of the loop of extract_negative_cycles; the HashSet yields the
\* flagged nodes in any order.
ExtractStep ==
  /\ pc = "extract"
  /\ \E cycle_node \in to_extract :
       LET cycle_path == reconstruct_cycle(edges, cycle_node, predecessor,
                                           token_to_node[wmnt_token], max_hops)
       IN /\ to_extract' = to_extract \ {cycle_node}
          /\ node_cycles' =
               IF KeepCycle(cycle_path, token_to_node[wmnt_token], max_hops)
               THEN Append(node_cycles, cycle_path) ELSE node_cycles
  /\ UNCHANGED <<graph_vars, pc, max_hops, caller, dist, predecessor,
                 in_queue, queue_count, queue, negative_cycle_nodes,
                 relaxed_through, cycles, eval_vars>>

\* extract_negative_cycles returns; find_arbitrage_cycles converts the node
\* paths and returns.
ExtractEnd ==
  /\ pc = "extract" /\ to_extract = {}
  /\ cycles' = ConvertAll(nodes, edges, node_cycles)
  /\ pc' = AfterSearch(caller)
  /\ UNCHANGED <<graph_vars, max_hops, caller, dist, predecessor, in_queue,
                 queue_count, queue, negative_cycle_nodes, relaxed_through,
                 to_extract, node_cycles, eval_vars>>

\* A worker evaluates one candidate (par_iter: in any order).
AnalyzeStep ==
  /\ pc = "evaluate"
  /\ \E i \in (1..Len(cycles)) \ DOMAIN eval_slots :
       /\ eval_slots' =
            [j \in DOMAIN eval_slots \cup {i} |->
               IF j = i
               THEN analyze_cycle(token_to_node, edges, cycles[i],
                                  Config.ternary_search_iterations)
               ELSE eval_slots[j]]
       /\ eval_order' = Append(eval_order, i)
  /\ UNCHANGED <<graph_vars, pc, search_vars, result>>

\* A faulty collect for sensitivity runs: only the outcome of the first
\* candidate is kept.
Collected_first_only(slots, i) ==
  IF i \notin DOMAIN slots THEN <<>> ELSE slots[i]

\* filter_map(..).collect(): the outcomes in candidate order.
RECURSIVE Collected(_, _)
Collected(slots, i) ==
  IF i \notin DOMAIN slots THEN <<>>
  ELSE slots[i] \o Collected(slots, i + 1)

\* find_all_opportunities returns.
Collect ==
  /\ pc = "evaluate"
  /\ DOMAIN eval_slots = 1..Len(cycles)
  /\ result' = <<MultiPathOpportunity(Collected(eval_slots, 1))>>
  /\ pc' = "done"
  /\ UNCHANGED <<graph_vars, search_vars, eval_slots, eval_order>>

\* The caller has the result; the locals of the call are gone.
Return ==
  /\ pc = "done"
  /\ pc' = "idle"
  /\ max_hops' = 0 /\ caller' = "none"
  /\ dist' = <<>> /\ predecessor' = <<>> /\ in_queue' = <<>>
  /\ queue_count' = <<>> /\ queue' = <<>> /\ negative_cycle_nodes' = {}
  /\ relaxed_through' = {} /\ to_extract' = {} /\ node_cycles' = <<>>
  /\ cycles' = <<>> /\ eval_slots' = <<>> /\ eval_order' = <<>>
  /\ result' = <<>>
  /\ UNCHANGED graph_vars

Next ==
  /\ \/ \E s \in PoolSnapshots : AddPool(s)
     \/ \E s \in UpdateSnapshots : UpdatePool(s)
     \/ FindAllOpportunities
     \/ \E mh \in OtherMaxHops : FindArbitrageCycles(mh)
     \/ SpfaStep
     \/ SpfaEnd
     \/ ExtractStep
     \/ ExtractEnd
     \/ AnalyzeStep
     \/ Collect
     \/ Return
  /\ UNCHANGED <<sel_vars, call_vars, io_vars>>

Spec == Init /\ [][Next]_vars

\* ------------------------------------------- the graph under its own calls

\* A direct call of TokenGraph::add_token; last_call keeps the handle returned.
AddToken(token) ==
  /\ pc = "idle"
  /\ LET g == add_token(nodes, token_to_node, token)
     IN /\ nodes' = g.nodes
        /\ token_to_node' = g.token_to_node
        /\ last_call' = <<"add_token", token, g.token_to_node[token]>>
  /\ UNCHANGED <<edges, n_pools, n_updates, pc, search_vars, eval_vars>>

\* The number of add_pool calls in a run of the graph on its own.
MaxGraphPools == 2

\* The public mutators of TokenGraph, called in any order.
NextGraph ==
  /\ \/ \E token \in Tokens : AddToken(token)
     \/ \E s \in PoolSnapshots : (n_pools < MaxGraphPools /\ AddPool(s))
     \/ \E s \in UpdateSnapshots : UpdatePool(s)
  /\ UNCHANGED <<sel_vars, call_vars, io_vars>>

SpecGraph == Init /\ [][NextGraph]_vars

\* ------------------------------------------- the ranker on its own inputs

\* The number of opportunities of a collection given to select_best.
MaxOpportunities == 2

\* The paths of the opportunities given: a 3-hop and a 4-hop cycle.
SelPath(hops) ==
  IF hops = 3
  THEN ArbitragePath(<<"WMNT", "MOE", "JOE", "WMNT">>, <<1, 2, 3>>)
  ELSE ArbitragePath(<<"WMNT", "MOE", "JOE", "METH", "WMNT">>, <<1, 2, 4, 5>>)

\* An opportunity with the fields select_best reads; hops = 0 is the legacy
\* triangular opportunity, which carries no path.
SelOpportunity(net_profit, profit_percentage, hops) ==
  [optimal_input |-> 100, final_output |-> 100 + net_profit,
   gross_profit |-> net_profit, net_profit |-> net_profit,
   profit_percentage |-> profit_percentage, search_method |-> "test",
   path |-> IF hops = 0 THEN <<>> ELSE <<SelPath(hops)>>]

SelOpportunities ==
  {SelOpportunity(n, p, h) : n \in {-2, 0, 4, 8}, p \in {2, 4}, h \in {0, 3, 4}}

SeqsUpTo(S, n) == UNION {[1..k -> S] : k \in 0..n}

InitSelect ==
  /\ nodes = <<>> /\ edges = <<>>
  /\ token_to_node = [t \in Tokens |-> 0]
  /\ n_pools = 0 /\ n_updates = 0
  /\ last_call = <<>>
  /\ pc = "idle"
  /\ NoSearch
  /\ NoCall
  /\ NoIo
  /\ sel_opportunities \in SeqsUpTo(SelOpportunities, MaxOpportunities)
  /\ sel_strategy \in Strategies
  /\ sel_result = <<"pending">>

\* A call of StrategySelector::select_best.
SelectBest ==
  /\ sel_result = <<"pending">>
  /\ sel_result' = <<"returned", select_best(sel_opportunities, sel_strategy)>>
  /\ UNCHANGED <<sel_opportunities, sel_strategy, graph_vars, pc, search_vars,
                 eval_vars, call_vars, io_vars>>

NextSelect == SelectBest

SpecSelect == InitSelect /\ [][NextSelect]_vars

\* --------------------------- the functions of the core on their own inputs

\* A faulty loop for sensitivity runs: a hop with no edge is skipped.
RECURSIVE PathProfitHops_skip_missing(_, _, _, _, _)
PathProfitHops_skip_missing(t2n, es, tokens, i, current_amount) ==
  IF i >= Len(tokens) THEN <<TRUE, current_amount>>
  ELSE LET token_in == tokens[i]
           token_out == tokens[i + 1]
       IN IF t2n[token_in] = 0 \/ t2n[token_out] = 0 THEN <<FALSE, 0>>
          ELSE LET e == find_edge(es, t2n[token_in], t2n[token_out])
               IN IF e = 0
                  THEN PathProfitHops_skip_missing(t2n, es, tokens, i + 1,
                                                   current_amount)
                  ELSE LET out == calculate_output(es[e].original_pool,
                                                   current_amount, token_in)
                       IN IF ~out[1] THEN <<FALSE, 0>>
                          ELSE PathProfitHops_skip_missing(t2n, es, tokens,
                                                           i + 1, out[2])

\* The loop of calculate_path_profit from hop i on: <<TRUE, current_amount>>,
\* or <<FALSE, 0>> where a `?` returns None.
RECURSIVE PathProfitHops(_, _, _, _, _)
PathProfitHops(t2n, es, tokens, i, current_amount) ==
  IF i >= Len(tokens) THEN <<TRUE, current_amount>>
  ELSE LET token_in == tokens[i]
           token_out == tokens[i + 1]
       IN IF t2n[token_in] = 0 \/ t2n[token_out] = 0 THEN <<FALSE, 0>>
          ELSE LET e == find_edge(es, t2n[token_in], t2n[token_out])
               IN IF e = 0 THEN <<FALSE, 0>>
                  ELSE LET out == calculate_output(es[e].original_pool,
                                                   current_amount, token_in)
                       IN IF ~out[1] THEN <<FALSE, 0>>
                          ELSE PathProfitHops(t2n, es, tokens, i + 1, out[2])

\* TokenGraph::calculate_path_profit: <<TRUE, profit>> for Some(profit), else
\* <<FALSE, 0>>.
calculate_path_profit(t2n, es, path, input_amount) ==
  IF Len(path.tokens) < 3 THEN <<FALSE, 0>>
  ELSE LET hops == PathProfitHops(t2n, es, path.tokens, 1, input_amount)
           last_token == Last(path.tokens)
       IN IF ~hops[1] THEN <<FALSE, 0>>
          ELSE IF last_token # wmnt_token
          THEN IF t2n[last_token] = 0 \/ t2n[wmnt_token] = 0 THEN <<FALSE, 0>>
               ELSE LET e == find_edge(es, t2n[last_token], t2n[wmnt_token])
                    IN IF e = 0 THEN <<FALSE, 0>>
                       ELSE LET out == calculate_output(es[e].original_pool,
                                                        hops[2], last_token)
                            IN IF ~out[1] THEN <<FALSE, 0>>
                               ELSE <<TRUE, out[2] - input_amount>>
          ELSE <<TRUE, hops[2] - input_amount>>

\* The graph after add_pool of every snapshot of a list, in order.
RECURSIVE GraphOf(_, _)
GraphOf(g, snaps) ==
  IF snaps = <<>> THEN g
  ELSE GraphOf(add_pool(g.nodes, g.token_to_node, g.edges, Head(snaps),
                        Config.dex_fee),
               Tail(snaps))

\* A faulty match for sensitivity runs: the reserves stay in the snapshot's
\* order when its tokens are the other way round.
ReservesInOrder_unswapped(s, x, y) ==
  IF (s.token_a = x /\ s.token_b = y) \/ (s.token_a = y /\ s.token_b = x)
  THEN <<TRUE, <<u256_to_f64(s.reserve_a), u256_to_f64(s.reserve_b)>>>>
  ELSE <<FALSE, <<>>>>

\* One match of prepare_pools_for_search: the reserves of snapshot s in the
\* order (x, y), <<FALSE, _>> when s is not a pool of x and y.
ReservesInOrder(s, x, y) ==
  IF s.token_a = x /\ s.token_b = y
  THEN <<TRUE, <<u256_to_f64(s.reserve_a), u256_to_f64(s.reserve_b)>>>>
  ELSE IF s.token_a = y /\ s.token_b = x
  THEN <<TRUE, <<u256_to_f64(s.reserve_b), u256_to_f64(s.reserve_a)>>>>
  ELSE <<FALSE, <<>>>>

\* arbitrage::prepare_pools_for_search: <<TRUE, pools>> for Some.
prepare_pools_for_search(moe_wmnt, joe_moe, joe_wmnt) ==
  LET p1 == ReservesInOrder(moe_wmnt, "WMNT", "MOE")
      p2 == ReservesInOrder(joe_moe, "MOE", "JOE")
      p3 == ReservesInOrder(joe_wmnt, "JOE", "WMNT")
  IN IF p1[1] /\ p2[1] /\ p3[1] THEN <<TRUE, <<p1[2], p2[2], p3[2]>>>>
     ELSE <<FALSE, <<>>>>

\* arbitrage::find_optimal_arbitrage: <<opportunity>> for Some, <<>> for None.
find_optimal_arbitrage(moe_wmnt, joe_moe, joe_wmnt) ==
  LET pools == prepare_pools_for_search(moe_wmnt, joe_moe, joe_wmnt) IN
  IF ~pools[1] THEN <<>>
  ELSE LET best == find_best_input(pools[2], Config.dex_fee,
                                   Config.ternary_search_iterations)
           best_input == best[1]
           gross_profit == best[2]
           gas_cost == GAS_UNITS_3_HOPS * Config.gas_price
           net_profit == gross_profit - gas_cost
       IN << [optimal_input |-> best_input,
              final_output |-> best_input + gross_profit,
              gross_profit |-> gross_profit,
              net_profit |-> net_profit,
              profit_percentage |->
                IF best_input > 0 THEN (net_profit * 100) \div best_input
                ELSE 0,
              search_method |-> "ternary_search",
              path |-> <<>>] >>

\* The snapshot triples (moe_wmnt, joe_moe, joe_wmnt) given to
\* find_optimal_arbitrage: the catalogue triangle in both token orders, equal
\* reserves, an empty pool, and a snapshot of another pair in second place.
CallTriples ==
  {<<Snap("WMNT", 1000, "MOE", 900, 1), Snap("MOE", 1000, "JOE", 1100, 2),
     Snap("JOE", 1000, "WMNT", 1200, 3)>>,
   <<Snap("MOE", 1000, "WMNT", 900, 1), Snap("JOE", 1000, "MOE", 1100, 2),
     Snap("WMNT", 1000, "JOE", 1200, 3)>>,
   <<Snap("WMNT", 1000, "MOE", 1000, 1), Snap("MOE", 1000, "JOE", 1000, 2),
     Snap("JOE", 1000, "WMNT", 1000, 3)>>,
   <<Snap("WMNT", 0, "MOE", 900, 1), Snap("MOE", 1000, "JOE", 1100, 2),
     Snap("JOE", 1000, "WMNT", 1200, 3)>>,
   <<Snap("WMNT", 1000, "MOE", 900, 1), Snap("JOE", 1000, "METH", 1100, 4),
     Snap("JOE", 1000, "WMNT", 1200, 3)>>}

\* The snapshots given to prepare_pools_for_search in one position: the
\* pool of x and y in both token orders, a pool of another pair, a pool of
\* x with itself.
PrepareSnapshots(x, y, other, rx, ry, p) ==
  {Snap(x, rx, y, ry, p), Snap(y, ry, x, rx, p), Snap(y, ry, other, rx, p),
   Snap(x, rx, x, ry, p)}

\* The pool lists the graph of a call is loaded from: three pools of equal
\* reserves, the triangle of the catalogue, the triangle with an empty pool,
\* a triangle that pays 1.2 on every hop, and one pool alone.
CallGraphs ==
  {<<Snap("WMNT", 1000, "MOE", 1000, 1), Snap("MOE", 1000, "JOE", 1000, 2),
     Snap("JOE", 1000, "WMNT", 1000, 3)>>,
   <<Snap("WMNT", 1000, "MOE", 900, 1), Snap("MOE", 1000, "JOE", 1100, 2),
     Snap("JOE", 1000, "WMNT", 1200, 3)>>,
   <<Snap("WMNT", 1000, "MOE", 900, 1), Snap("MOE", 0, "JOE", 1100, 2),
     Snap("JOE", 1000, "WMNT", 1200, 3)>>,
   <<Snap("WMNT", 1000, "MOE", 1200, 1), Snap("MOE", 1000, "JOE", 1200, 2),
     Snap("JOE", 1000, "WMNT", 1200, 3)>>,
   <<Snap("WMNT", 1000, "MOE", 900, 1)>>}

\* The reserve values, amounts and fees (in thousandths) of the calls.
CallReserves == {0, 900, 1000}
CallAmounts == {-1, 0, 100, 500}
SwapReserves == {0, 1, 10, 500}
SwapAmounts == {-1, 0, 1, 2, 10, 400, 600}
SwapFees == {0, 3, 500, 999}
CallIterations == {0, 1, 2, DEFAULT_TERNARY_SEARCH_ITERATIONS}

\* The reserve lists given to arbitrage_profit and find_best_input.
CallPoolLists ==
  {<<<<1000, 1000>>, <<1000, 1000>>, <<1000, 1000>>>>,
   <<<<500, 500>>, <<500, 500>>, <<500, 500>>>>,
   <<<<2, 2>>, <<2, 2>>, <<2, 2>>>>,
   <<<<1000, 900>>, <<1000, 1100>>, <<1000, 1200>>>>,
   <<<<1000, 1200>>, <<1000, 1200>>, <<1000, 1200>>>>,
   <<<<1000, 1200>>, <<1000, 1200>>>>,
   <<<<1000, 1000>>, <<1000, 1000>>, <<1000, 1000>>, <<1000, 1000>>>>}

\* The token sequences given to calculate_path_profit.
CallPaths ==
  {<<"WMNT", "MOE", "JOE", "WMNT">>, <<"WMNT", "JOE", "MOE", "WMNT">>,
   <<"WMNT", "MOE", "JOE">>, <<"WMNT", "MOE">>, <<"WMNT", "METH", "WMNT">>,
   <<"WMNT", "JOE", "JOE", "WMNT">>, <<"MOE", "JOE", "MOE">>}

Calls ==
  {[fn |-> "calculate_output",
    pool |-> PoolEdge(1, "WMNT", "MOE", ra, rb, Config.dex_fee),
    input_amount |-> a, token_in |-> t] :
     ra \in CallReserves, rb \in CallReserves, a \in CallAmounts,
     t \in {"WMNT", "MOE", "JOE"}}
  \cup {[fn |-> "swap", x_reserve |-> x, y_reserve |-> y, dx |-> dx,
         fee |-> fee] :
          x \in SwapReserves, y \in SwapReserves, dx \in SwapAmounts,
          fee \in SwapFees}
  \cup {[fn |-> "arbitrage_profit", dx |-> dx, pools |-> pools,
         fee |-> Config.dex_fee] :
          dx \in CallAmounts \cup {1, 999}, pools \in CallPoolLists}
  \cup {[fn |-> "find_best_input", pools |-> pools, fee |-> Config.dex_fee,
         iterations |-> n] :
          pools \in CallPoolLists, n \in CallIterations}
  \cup {[fn |-> "calculate_path_profit",
         path |-> ArbitragePath(tokens, <<>>), input_amount |-> a] :
          tokens \in CallPaths, a \in CallAmounts}
  \cup {[fn |-> "analyze_cycle", cycle |-> ArbitragePath(tokens, <<>>),
         iterations |-> n] :
          tokens \in CallPaths, n \in CallIterations}
  \cup {[fn |-> "find_optimal_arbitrage", moe_wmnt |-> t[1],
         joe_moe |-> t[2], joe_wmnt |-> t[3]] : t \in CallTriples}
  \cup {[fn |-> "prepare_pools_for_search", moe_wmnt |-> s1, joe_moe |-> s2,
         joe_wmnt |-> s3] :
          s1 \in PrepareSnapshots("WMNT", "MOE", "JOE", 1000, 900, 1),
          s2 \in PrepareSnapshots("MOE", "JOE", "WMNT", 1100, 1200, 2),
          s3 \in PrepareSnapshots("JOE", "WMNT", "MOE", 500, 0, 3)}

\* A loaded graph and a pending call.
InitCalls ==
  /\ \E snaps \in CallGraphs :
       LET g == GraphOf([nodes |-> <<>>,
                         token_to_node |-> [t \in Tokens |-> 0],
                         edges |-> <<>>], snaps)
       IN /\ nodes = g.nodes /\ edges = g.edges
          /\ token_to_node = g.token_to_node
          /\ n_pools = Len(snaps)
          /\ last_call = <<"add_pool", snaps[Len(snaps)]>>
  /\ n_updates = 0
  /\ pc = "idle"
  /\ NoSearch
  /\ NoSelection
  /\ NoIo
  /\ call \in Calls
  /\ locals = <<>>
  /\ ret = <<"pending">>

\* What a call leaves alone: the graph and the arguments.
call_frame == <<graph_vars, pc, search_vars, eval_vars, sel_vars, call,
                io_vars>>

\* A call of PoolEdge::calculate_output.
CallCalculateOutput ==
  /\ call.fn = "calculate_output" /\ ret = <<"pending">>
  /\ ret' = <<"returned",
              calculate_output(call.pool, call.input_amount, call.token_in)>>
  /\ UNCHANGED <<locals, call_frame>>

\* A call of math::swap; the locals keep the quotient computed.
CallSwap ==
  /\ call.fn = "swap" /\ ret = <<"pending">>
  /\ locals' = IF call.dx <= 0 \/ call.x_reserve <= 0 \/ call.y_reserve <= 0
               THEN <<>>
               ELSE swap_quotient(call.x_reserve, call.y_reserve, call.dx,
                                  call.fee)
  /\ ret' = <<"returned",
              swap(call.x_reserve, call.y_reserve, call.dx, call.fee)>>
  /\ UNCHANGED call_frame

\* A call of math::arbitrage_profit.
CallArbitrageProfit ==
  /\ call.fn = "arbitrage_profit" /\ ret = <<"pending">>
  /\ ret' = <<"returned", arbitrage_profit(call.dx, call.pools, call.fee)>>
  /\ UNCHANGED <<locals, call_frame>>

\* find_best_input up to its loop: left, right and the rounds done.
FindBestInputStart ==
  /\ call.fn = "find_best_input" /\ ret = <<"pending">> /\ locals = <<>>
  /\ locals' = [left |-> 0, right |-> (call.pools[1][1] * 999) \div 1000,
                round |-> 0]
  /\ UNCHANGED <<ret, call_frame>>

\* One round of the loop of find_best_input.
TernaryStep ==
  /\ call.fn = "find_best_input" /\ ret = <<"pending">> /\ locals # <<>>
  /\ locals.round < call.iterations
  /\ LET lr == TernaryRound(<<locals.left, locals.right>>, call.pools,
                            call.fee)
     IN locals' = [left |-> lr[1], right |-> lr[2],
                   round |-> locals.round + 1]
  /\ UNCHANGED <<ret, call_frame>>

\* find_best_input after its loop: the midpoint and its profit.
FindBestInputReturn ==
  /\ call.fn = "find_best_input" /\ ret = <<"pending">> /\ locals # <<>>
  /\ locals.round = call.iterations
  /\ LET best_input == (locals.left + locals.right) \div 2
     IN ret' = <<"returned",
                 <<best_input,
                   arbitrage_profit(best_input, call.pools, call.fee)>>>>
  /\ UNCHANGED <<locals, call_frame>>

\* A call of TokenGraph::calculate_path_profit on the loaded graph.
CallCalculatePathProfit ==
  /\ call.fn = "calculate_path_profit" /\ ret = <<"pending">>
  /\ ret' = <<"returned",
              calculate_path_profit(token_to_node, edges, call.path,
                                    call.input_amount)>>
  /\ UNCHANGED <<locals, call_frame>>

\* A call of MultiPathAnalyzer::analyze_cycle.
CallAnalyzeCycle ==
  /\ call.fn = "analyze_cycle" /\ ret = <<"pending">>
  /\ ret' = <<"returned",
              analyze_cycle(token_to_node, edges, call.cycle, call.iterations)>>
  /\ UNCHANGED <<locals, call_frame>>

\* A call of arbitrage::find_optimal_arbitrage.
CallFindOptimalArbitrage ==
  /\ call.fn = "find_optimal_arbitrage" /\ ret = <<"pending">>
  /\ ret' = <<"returned",
              find_optimal_arbitrage(call.moe_wmnt, call.joe_moe,
                                     call.joe_wmnt)>>
  /\ UNCHANGED <<locals, call_frame>>

\* A call of arbitrage::prepare_pools_for_search.
CallPreparePoolsForSearch ==
  /\ call.fn = "prepare_pools_for_search" /\ ret = <<"pending">>
  /\ ret' = <<"returned",
              prepare_pools_for_search(call.moe_wmnt, call.joe_moe,
                                       call.joe_wmnt)>>
  /\ UNCHANGED <<locals, call_frame>>

NextCalls ==
  \/ CallCalculateOutput
  \/ CallSwap
  \/ CallArbitrageProfit
  \/ FindBestInputStart
  \/ TernaryStep
  \/ FindBestInputReturn
  \/ CallCalculatePathProfit
  \/ CallAnalyzeCycle
  \/ CallFindOptimalArbitrage
  \/ CallPreparePoolsForSearch

SpecCalls == InitCalls /\ [][NextCalls]_vars

\* ------------------------------------------ the core on malformed pools

\* The number of add_pool calls of a run on malformed pools.
MaxMalformedPools == 3

\* Snapshots add_pool gets: two pools of the triangle, pools whose two
\* tokens are the same token (one of them on the base token), a pool with
\* both reserves zero, and a pool with one reserve zero.  A snapshot may be
\* added again.
MalformedSnapshots ==
  { Snap("WMNT", 1000, "MOE", 900, 1),
    Snap("MOE", 1000, "JOE", 1100, 2),
    Snap("JOE", 1000, "WMNT", 1200, 3),
    Snap("MOE", 1000, "MOE", 1200, 7),
    Snap("WMNT", 1200, "WMNT", 1000, 8),
    Snap("JOE", 0, "JOE", 0, 9),
    Snap("WMNT", 0, "MOE", 900, 1) }

\* Snapshots update_pool gets: a same-token pool emptied, a same-token pool
\* turned round, a pool with one reserve zero.
MalformedUpdates ==
  { Snap("MOE", 0, "MOE", 0, 7),
    Snap("MOE", 1200, "MOE", 1000, 7),
    Snap("MOE", 0, "WMNT", 1000, 1) }

NextMalformed ==
  /\ \/ \E s \in MalformedSnapshots :
          (n_pools < MaxMalformedPools /\ AddPool(s))
     \/ \E s \in MalformedUpdates : UpdatePool(s)
     \/ FindAllOpportunities
     \/ \E mh \in OtherMaxHops : FindArbitrageCycles(mh)
     \/ SpfaStep
     \/ SpfaEnd
     \/ ExtractStep
     \/ ExtractEnd
     \/ AnalyzeStep
     \/ Collect
     \/ Return
  /\ UNCHANGED <<sel_vars, call_vars, io_vars>>

SpecMalformed == Init /\ [][NextMalformed]_vars

\* ================================================================ claims

\* ---- C1
\* Every path find_arbitrage_cycles returns, on every graph add_pool and
\* update_pool can build and for every max_hops, has a token sequence of
\* length L with 4 <= L <= max_hops + 1 that starts and ends at the base
\* token.
C1_ReturnedPathsFiltered ==
  \A i \in 1..Len(cycles) :
    LET t == cycles[i].tokens
    IN /\ 4 <= Len(t)
       /\ Len(t) <= max_hops + 1
       /\ t[1] = "WMNT"
       /\ t[Len(t)] = "WMNT"

\* A search on a graph that had an update has returned a path.
C1_Witness ==
  /\ pc \in {"evaluate", "done"}
  /\ cycles # <<>>
  /\ n_updates > 0

\* ---- C2
\* After add_pool of WMNT-MOE (1000/900), MOE-JOE (1000/1100) and JOE-WMNT
\* (1000/1200) in that order, fee 0.003, base token WMNT,
\* find_arbitrage_cycles(4) returns at least one path, and the paths it
\* returns start and end at WMNT and have at most 5 tokens.
C2_TriangleFound ==
  ( /\ pc \in {"evaluate", "done"}
    /\ max_hops = 4
    /\ n_pools = 3 /\ n_updates = 0
    /\ nodes = <<"WMNT", "MOE", "JOE">>
    /\ [i \in 1..Len(edges) |-> edges[i].pool_address] = <<1, 1, 2, 2, 3, 3>> )
  => /\ cycles # <<>>
     /\ \A i \in 1..Len(cycles) :
          /\ Head(cycles[i].tokens) = "WMNT"
          /\ cycles[i].tokens[Len(cycles[i].tokens)] = "WMNT"
          /\ Len(cycles[i].tokens) <= 5

\* ---- C3
\* After update_pool with a snapshot of a pool that was added before (the
\* one pool of its token pair), in either token order, get_pool_info gives
\* for both directions a Pool Edge that holds the snapshot's reserves, each
\* for the token the snapshot gave it for, and the two directions agree.
C3_UpdateReflected ==
  ( /\ Len(last_call) = 2
    /\ last_call[1] = "update_pool"
    /\ token_to_node[last_call[2].token_a] # 0
    /\ token_to_node[last_call[2].token_b] # 0
    /\ \A i \in 1..Len(edges) :
         {edges[i].source, edges[i].target}
             = {token_to_node[last_call[2].token_a],
                token_to_node[last_call[2].token_b]}
           => edges[i].pool_address = last_call[2].pool_address
    /\ Cardinality({i \in 1..Len(edges) :
         edges[i].pool_address = last_call[2].pool_address}) = 2 )
  => LET s == last_call[2]
         ab == get_pool_info(token_to_node, edges, s.token_a, s.token_b)
         ba == get_pool_info(token_to_node, edges, s.token_b, s.token_a)
         ReserveOf(pool, token) ==
           IF pool.token_a = token THEN pool.reserves_a ELSE pool.reserves_b
         Holds(pool) ==
           /\ {pool.token_a, pool.token_b} = {s.token_a, s.token_b}
           /\ ReserveOf(pool, s.token_a) = s.reserve_a
           /\ ReserveOf(pool, s.token_b) = s.reserve_b
     IN /\ ab[1] /\ ba[1]
        /\ Holds(ab[2]) /\ Holds(ba[2])
        /\ ab[2] = ba[2]

\* ---- C4
\* The output of chaining the constant-product swap over the hops of a path
\* from hop i on, for the amount that enters hop i.
RECURSIVE ChainOutput(_, _, _, _, _)
ChainOutput(t2n, es, tokens, i, amount) ==
  IF i >= Len(tokens) THEN amount
  ELSE LET pool == get_pool_info(t2n, es, tokens[i], tokens[i + 1])[2]
           reserve_in == IF pool.token_a = tokens[i] THEN pool.reserves_a
                         ELSE pool.reserves_b
           reserve_out == IF pool.token_a = tokens[i] THEN pool.reserves_b
                          ELSE pool.reserves_a
           out == IF amount <= 0 \/ reserve_in <= 0 \/ reserve_out <= 0 THEN 0
                  ELSE (amount * (1000 - pool.fee) * reserve_out)
                         \div (reserve_in * 1000 + amount * (1000 - pool.fee))
       IN ChainOutput(t2n, es, tokens, i + 1, out)

\* The gross profit of every opportunity find_all_opportunities returns, on
\* a 3-hop or a 4-hop path, is the output of the swaps chained over all hops
\* of the path at the optimal input, minus that input.
C4_GrossProfitIsChain ==
  (pc = "done" /\ result # <<>>) =>
    \A i \in 1..Len(result[1].opportunities) :
      LET opp == result[1].opportunities[i]
      IN opp.gross_profit
           = ChainOutput(token_to_node, edges, opp.path[1].tokens, 1,
                         opp.optimal_input) - opp.optimal_input

\* ---- C5
\* The execution cost taken off the gross profit of a path goes by its hop
\* count: a 3-hop path (4 tokens) is charged the 3-hop unit cost, a 4-hop
\* path (5 tokens) the 4-hop unit cost, and only another hop count the
\* linear estimate (3-hop cost plus an increment per token).
C5_CostByHopCount ==
  (pc = "done" /\ result # <<>>) =>
    \A i \in 1..Len(result[1].opportunities) :
      LET opp == result[1].opportunities[i]
          n_tokens == Len(opp.path[1].tokens)
          cost == opp.gross_profit - opp.net_profit
      IN cost = Config.gas_price *
                  ( CASE n_tokens - 1 = 3 -> GAS_UNITS_3_HOPS
                      [] n_tokens - 1 = 4 -> GAS_UNITS_4_HOPS
                      [] OTHER -> GAS_UNITS_3_HOPS + n_tokens )

\* ---- C6
\* select_best returns nothing exactly when no opportunity of the collection
\* has net profit > 0 (an empty collection included); otherwise it returns a
\* member with net profit > 0 that is optimal among the profitable ones:
\* greatest net profit (MaxProfit), greatest profit percentage
\* (MaxProfitPercent), least hop count (MinRisk), greatest
\* net_profit / hop_count^2 (BalancedRiskReturn; the quotients are compared
\* by their cross products).
C6_SelectBestOptimal ==
  sel_result[1] = "returned" =>
    LET opps == sel_opportunities
        r == sel_result[2]
        P == {i \in 1..Len(opps) : opps[i].net_profit > 0}
        Sq(o) == hop_count(o) * hop_count(o)
    IN /\ (r = <<>>) <=> (P = {})
       /\ r # <<>> =>
            /\ \E i \in P : opps[i] = r[1]
            /\ \A i \in P :
                 CASE sel_strategy = "MaxProfit" ->
                        opps[i].net_profit <= r[1].net_profit
                   [] sel_strategy = "MaxProfitPercent" ->
                        opps[i].profit_percentage <= r[1].profit_percentage
                   [] sel_strategy = "MinRisk" ->
                        hop_count(r[1]) <= hop_count(opps[i])
                   [] sel_strategy = "BalancedRiskReturn" ->
                        opps[i].net_profit * Sq(r[1]) <= r[1].net_profit * Sq(opps[i])

\* MaxProfit on net profits 4 and 8 has returned the opportunity of 8.
C6_Witness ==
  /\ sel_strategy = "MaxProfit"
  /\ Len(sel_opportunities) = 2
  /\ sel_opportunities[1].net_profit = 4
  /\ sel_opportunities[2].net_profit = 8
  /\ sel_result[1] = "returned"
  /\ sel_result[2] # <<>>
  /\ sel_result[2][1].net_profit = 8

\* ---- C7
\* BalancedRiskReturn on two opportunities of the same positive net profit,
\* one on a 3-hop and one on a 4-hop path, returns the 3-hop one, whichever
\* comes first.
C7_BalancedPrefersThreeHop ==
  ( /\ sel_strategy = "BalancedRiskReturn"
    /\ sel_result[1] = "returned"
    /\ Len(sel_opportunities) = 2
    /\ sel_opportunities[1].net_profit = sel_opportunities[2].net_profit
    /\ sel_opportunities[1].net_profit > 0
    /\ {hop_count(sel_opportunities[1]), hop_count(sel_opportunities[2])} = {3, 4} )
  => /\ sel_result[2] # <<>>
     /\ hop_count(sel_result[2][1]) = 3

\* The 3-hop opportunity came first, the 4-hop one second, both of net
\* profit 8, and select_best has returned.
C7_Witness ==
  /\ sel_strategy = "BalancedRiskReturn"
  /\ sel_result[1] = "returned"
  /\ Len(sel_opportunities) = 2
  /\ sel_opportunities[1].net_profit = 8
  /\ sel_opportunities[2].net_profit = 8
  /\ hop_count(sel_opportunities[1]) = 3
  /\ hop_count(sel_opportunities[2]) = 4

\* ---- C8
\* No pool address was given to add_pool twice.
EachPoolAddedOnce ==
  \A e \in 1..Len(edges) :
    Cardinality({f \in 1..Len(edges) :
                   edges[f].pool_address = edges[e].pool_address}) = 2

\* A pool with a reserve at or below epsilon is out of the search: the
\* weights of both its edges are infinite, no distance or predecessor is
\* updated through either of them, and no path find_arbitrage_cycles returns
\* has the pool as a hop (every pool was added once).
C8_DrainedPoolExcluded ==
  EachPoolAddedOnce
  => \A e \in 1..Len(edges) :
       ( \/ edges[e].original_pool.reserves_a <= EPSILON
         \/ edges[e].original_pool.reserves_b <= EPSILON )
       => /\ edges[e].weight = INFINITY
          /\ e \notin relaxed_through
          /\ \A i \in 1..Len(cycles) :
               \A h \in 1..Len(cycles[i].pools) :
                 cycles[i].pools[h] # edges[e].pool_address

\* ---- C9
\* The least weight of an edge from node u to node v, INFINITY if none.
BestWeight(es, u, v) ==
  LET ws == {es[e].weight : e \in {i \in 1..Len(es) :
                                     es[i].source = u /\ es[i].target = v}}
  IN IF ws = {} THEN INFINITY ELSE CHOOSE w \in ws : \A x \in ws : w <= x

\* The weight of the cycle c[1] -> c[2] -> ... -> c[k] -> c[1].
RECURSIVE CycleWeight(_, _, _)
CycleWeight(es, c, i) ==
  IF i > Len(c) THEN 0
  ELSE FAdd(BestWeight(es, c[i], IF i = Len(c) THEN c[1] ELSE c[i + 1]),
            CycleWeight(es, c, i + 1))

\* The negative-weight cycles of the graph: sequences of distinct nodes,
\* each cycle written from its least node on.
NegativeCycles(es, n) ==
  {c \in UNION {[1..k -> 1..n] : k \in 2..n} :
     /\ \A i, j \in 1..Len(c) : i # j => c[i] # c[j]
     /\ \A i \in 2..Len(c) : c[1] < c[i]
     /\ CycleWeight(es, c, 1) < 0}

\* The cycle passes the length and base-token filter: it holds the base
\* token and has 3 to max_hops hops, or it can be entered from and left to
\* the base token by direct edges within max_hops.
PassesFilter(es, c, wmnt_node, mh) ==
  IF \E i \in 1..Len(c) : c[i] = wmnt_node
  THEN Len(c) + 1 >= 4 /\ Len(c) + 1 <= mh + 1
  ELSE /\ \E i \in 1..Len(c) :
            /\ find_edge(es, wmnt_node, c[i]) # 0
            /\ find_edge(es, c[i], wmnt_node) # 0
       /\ Len(c) + 3 <= mh + 1

\* The returned path is a path for the cycle: it visits the tokens of the
\* cycle (in either direction), closed at the base token.
PathFor(ns, tokens, c, wmnt_node) ==
  LET cycle_tokens == {ns[c[i]] : i \in 1..Len(c)}
  IN IF \E i \in 1..Len(c) : c[i] = wmnt_node
     THEN /\ Len(tokens) = Len(c) + 1
          /\ {tokens[i] : i \in 1..Len(tokens)} = cycle_tokens
     ELSE /\ Len(tokens) = Len(c) + 3
          /\ {tokens[i] : i \in 2..(Len(tokens) - 1)} = cycle_tokens

\* When the graph holds several negative-weight cycles that pass the length
\* and base-token filter, find_arbitrage_cycles returns a path for every one
\* of them.
C9_AllCyclesReturned ==
  ( /\ pc \in {"evaluate", "done"}
    /\ max_hops # 0
    /\ token_to_node[wmnt_token] # 0 )
  => LET wmnt_node == token_to_node[wmnt_token]
         found == {c \in NegativeCycles(edges, node_count) :
                     PassesFilter(edges, c, wmnt_node, max_hops)}
     IN Cardinality(found) >= 2 =>
          \A c \in found :
            \E i \in 1..Len(cycles) :
              PathFor(nodes, cycles[i].tokens, c, wmnt_node)

\* ---- C10
\* A hop of the path has no edge, or a pool with a non-positive reserve.
DegenerateHop(t2n, es, tokens) ==
  \E i \in 1..(Len(tokens) - 1) :
    LET pool_info == get_pool_info(t2n, es, tokens[i], tokens[i + 1])
    IN \/ ~pool_info[1]
       \/ pool_info[2].reserves_a <= 0
       \/ pool_info[2].reserves_b <= 0

\* find_all_opportunities drops every candidate with a missing edge or a
\* non-positive reserve on a hop, and returns an opportunity for every other
\* candidate (every pool was added once).
C10_DegenerateCandidateDropped ==
  (pc = "done" /\ result # <<>> /\ EachPoolAddedOnce) =>
    LET opps == result[1].opportunities
        kept == {i \in 1..Len(cycles) :
                   ~DegenerateHop(token_to_node, edges, cycles[i].tokens)}
    IN /\ \A j \in 1..Len(opps) :
            ~DegenerateHop(token_to_node, edges, opps[j].path[1].tokens)
       /\ \A i \in kept : \E j \in 1..Len(opps) : opps[j].path[1] = cycles[i]
       /\ Len(opps) = Cardinality(kept)


\* ---- C11
\* Every pass of the monitoring loop runs in order: the reserve updates are
\* complete before the cycle search starts, the evaluation of every candidate
\* is complete before the results are reported, and the updates of the next
\* pass start only after the results of the previous pass were reported.  The
\* graph is never mutated while a search or an evaluation is in progress.
C11_PhaseOrder ==
  {<<"idle", "idle">>, <<"idle", "spfa">>, <<"idle", "evaluate">>,
   <<"idle", "done">>, <<"spfa", "spfa">>, <<"spfa", "extract">>,
   <<"spfa", "evaluate">>, <<"spfa", "done">>, <<"extract", "extract">>,
   <<"extract", "evaluate">>, <<"extract", "done">>,
   <<"evaluate", "evaluate">>, <<"evaluate", "done">>, <<"done", "idle">>}
C11_PassStep ==
  /\ <<pc, pc'>> \in C11_PhaseOrder
  \* no mutation of the graph from the start of the search to the report
  /\ (pc # "idle" \/ pc' # "idle")
       => UNCHANGED <<nodes, edges, token_to_node, n_pools, n_updates>>
  \* an update runs between two passes, with no result outstanding
  /\ (n_updates' # n_updates \/ n_pools' # n_pools)
       => pc = "idle" /\ pc' = "idle" /\ result = <<>> /\ max_hops = 0
  \* the candidates are fixed once the evaluation starts
  /\ pc = "evaluate" => cycles' = cycles
  \* the result is built when every candidate has been evaluated
  /\ (result' # result /\ result' # <<>>)
       => pc = "evaluate" /\ DOMAIN eval_slots = 1..Len(cycles)
  \* the report ends the pass
  /\ (pc = "done" /\ pc' = "idle") => result' = <<>> /\ max_hops' = 0
C11_PassesInOrder == [][C11_PassStep]_vars
C11_Witness ==
  /\ pc = "done" /\ caller = "find_all_opportunities"
  /\ n_updates > 0 /\ cycles # <<>>
  /\ result # <<>> /\ Len(result[1].opportunities) = Len(cycles)


\* ---- C12
\* The opportunity list find_all_opportunities returns is the same for every
\* interleaving of the evaluation workers: it is the list a sequential
\* evaluation of the candidates in candidate order gives.  A worker writes
\* only the outcome of its own candidate and no state another worker reads.
RECURSIVE C12_SequentialEval(_)
C12_SequentialEval(i) ==
  IF i > Len(cycles) THEN <<>>
  ELSE analyze_cycle(token_to_node, edges, cycles[i],
                     Config.ternary_search_iterations)
         \o C12_SequentialEval(i + 1)
C12_ResultIsSequential ==
  (pc = "done" /\ caller = "find_all_opportunities" /\ result # <<>>)
    => result[1] = MultiPathOpportunity(C12_SequentialEval(1))
C12_WorkerStep ==
  (pc = "evaluate" /\ pc' = "evaluate")
    => /\ UNCHANGED <<graph_vars, search_vars, result>>
       /\ \A j \in DOMAIN eval_slots :
            j \in DOMAIN eval_slots' /\ eval_slots'[j] = eval_slots[j]
RECURSIVE C13_Sum(_, _)
C13_Sum(f, i) == IF i > Len(f) THEN 0 ELSE f[i] + C13_Sum(f, i + 1)
C13_Enqueues == C13_Sum(queue_count, 1)
C13_Turns == C13_Enqueues - Len(queue)
C13_MaxEnqueues == 1 + node_count * node_count * (node_count - 1)
C13_TurnsBounded ==
  (max_hops # 0 /\ dist # <<>>)
    => /\ C13_Enqueues <= C13_MaxEnqueues
       /\ C13_Turns >= 0
       /\ (pc # "spfa" => queue = <<>> /\ C13_Turns = C13_Enqueues)
C13_CutoffStep ==
  (pc = "spfa" /\ queue # <<>> /\ queue_count[Head(queue)] > node_count)
    => /\ dist' = dist /\ predecessor' = predecessor
       /\ queue_count' = queue_count
       /\ queue' = Tail(queue)
C13_LoopTurn ==
  (pc = "spfa" /\ queue # <<>>)
    => pc' = "spfa" /\ Len(queue') >= Len(queue) - 1
         /\ C13_Sum(queue_count', 1) - Len(queue') = C13_Turns + 1
C13_SearchTerminates ==
  [](C13_TurnsBounded) /\ [][C13_CutoffStep /\ C13_LoopTurn]_vars
C13_Witness ==
  /\ pc = "extract" /\ queue = <<>> /\ negative_cycle_nodes # {}
  /\ \E v \in 1..node_count : queue_count[v] > node_count


\* ---- C14
\* A node is flagged only when a negative-weight cycle is reachable from the
\* base token: on a graph with no reachable negative cycle the search flags
\* no node and find_arbitrage_cycles returns an empty list.
RECURSIVE C14_Reach(_, _)
C14_Reach(es, S) ==
  LET T == S \cup {es[e].target :
                     e \in {i \in 1..Len(es) :
                              es[i].source \in S /\ es[i].weight < INFINITY}}
  IN IF T = S THEN S ELSE C14_Reach(es, T)
C14_ReachableNegativeCycles ==
  LET reach == C14_Reach(edges, {token_to_node[wmnt_token]})
  IN {c \in NegativeCycles(edges, node_count) : c[1] \in reach}
C15_NoBaseTokenNoPaths ==
  (max_hops # 0 /\ token_to_node[wmnt_token] = 0)
    => /\ pc \in {"evaluate", "done"}
       /\ caller = "find_arbitrage_cycles" => pc = "done"
       /\ dist = <<>> /\ queue = <<>> /\ negative_cycle_nodes = {}
       /\ node_cycles = <<>> /\ cycles = <<>>
       /\ eval_slots = <<>>
       /\ result # <<>> =>
            /\ result[1].opportunities = <<>>
            /\ result[1].best_opportunity = <<>>
            /\ result[1].total_profit = 0
C15_Witness ==
  /\ pc = "done" /\ caller = "find_all_opportunities"
  /\ token_to_node[wmnt_token] = 0
  /\ edges # <<>>
  /\ result # <<>> /\ result[1].opportunities = <<>>


\* ---- C16
\* Every path find_arbitrage_cycles returns has exactly one pool identity per
\* hop (its token count minus one), and the i-th pool is the pool of a graph
\* edge from the i-th token to the (i+1)-th token.  A node sequence with a
\* consecutive pair that no edge joins is discarded.
C16_HopHasEdge(from, to, pool) ==
  \E e \in 1..Len(edges) :
    /\ edges[e].from_token = from /\ edges[e].to_token = to
    /\ edges[e].pool_address = pool
C16_AllHopsJoined(node_path) ==
  \A i \in 1..(Len(node_path) - 1) :
    \E e \in 1..Len(edges) :
      edges[e].source = node_path[i] /\ edges[e].target = node_path[i + 1]
C16_PoolPerHop ==
  (pc \in {"evaluate", "done"} /\ max_hops # 0)
    => /\ \A k \in 1..Len(cycles) :
            /\ Len(cycles[k].pools) = Len(cycles[k].tokens) - 1
            /\ \A i \in 1..Len(cycles[k].pools) :
                 C16_HopHasEdge(cycles[k].tokens[i], cycles[k].tokens[i + 1],
                                cycles[k].pools[i])
       /\ Len(cycles) =
            Cardinality({k \in 1..Len(node_cycles) :
                           C16_AllHopsJoined(node_cycles[k])})
C16_Witness ==
  /\ pc = "done" /\ max_hops # 0 /\ cycles # <<>>
  /\ Len(cycles[1].tokens) = 5 /\ Len(cycles[1].pools) = 4


\* ---- C17
\* Each add_pool call makes sure both tokens have a node and inserts exactly
\* two directed edges, one from token A to token B and one from B to A, each
\* with the weight of its own direction.  After any sequence of add_token and
\* add_pool calls the edge count is twice the number of add_pool calls and
\* the node count is the number of distinct tokens seen.
C17_DirectionWeight(reserve_in, reserve_out) ==
  IF reserve_in <= 0 \/ reserve_out <= 0 THEN INFINITY
  ELSE Ln(reserve_in) - Ln(reserve_out) - LnOneMinusFee(Config.dex_fee)
C17_GraphCounts ==
  /\ edge_count = 2 * n_pools
  /\ node_count = Cardinality(Range(nodes))
  /\ \A t \in Tokens :
       IF t \in Range(nodes) THEN token_to_node[t] \in 1..node_count
                                    /\ nodes[token_to_node[t]] = t
       ELSE token_to_node[t] = 0
C17_AddPoolStep ==
  n_pools' = n_pools + 1 =>
    LET s == last_call'[2]
        k == Len(edges)
    IN /\ last_call'[1] = "add_pool"
       /\ Range(nodes') = Range(nodes) \cup {s.token_a, s.token_b}
       /\ Len(nodes')
            = Len(nodes) + Cardinality({s.token_a, s.token_b} \ Range(nodes))
       /\ Len(edges') = k + 2 /\ SubSeq(edges', 1, k) = edges
       /\ edges'[k + 1].from_token = s.token_a
       /\ edges'[k + 1].to_token = s.token_b
       /\ edges'[k + 1].source = token_to_node'[s.token_a]
       /\ edges'[k + 1].target = token_to_node'[s.token_b]
       /\ edges'[k + 1].weight = C17_DirectionWeight(s.reserve_a, s.reserve_b)
       /\ edges'[k + 2].from_token = s.token_b
       /\ edges'[k + 2].to_token = s.token_a
       /\ edges'[k + 2].source = token_to_node'[s.token_b]
       /\ edges'[k + 2].target = token_to_node'[s.token_a]
       /\ edges'[k + 2].weight = C17_DirectionWeight(s.reserve_b, s.reserve_a)
       /\ edges'[k + 1].pool_address = s.pool_address
       /\ edges'[k + 2].pool_address = s.pool_address
C17_AddTokenStep ==
  (last_call' # last_call /\ last_call'[1] = "add_token") =>
    /\ edges' = edges
    /\ Range(nodes') = Range(nodes) \cup {last_call'[2]}
    /\ Len(nodes')
         = Len(nodes) + (IF last_call'[2] \in Range(nodes) THEN 0 ELSE 1)
C17_TwoEdgesPerPool ==
  [](C17_GraphCounts) /\ [][C17_AddPoolStep /\ C17_AddTokenStep]_vars
C17_Witness ==
  /\ n_pools = 2 /\ edge_count = 4 /\ node_count = 2
  /\ edges[3].source = edges[1].target /\ edges[3].target = edges[1].source
  /\ edges[3].pool_address # edges[1].pool_address


\* ---- C18
\* After any sequence of add_pool calls, also one that adds two pools for the
\* same token pair or the same pool twice, the graph holds at most one
\* directed edge per ordered token pair, so that the edge update_pool
\* refreshes is the edge the search relaxes and get_pool_info returns.
C18_OneEdgePerOrderedPair ==
  \A e, f \in 1..Len(edges) :
    (edges[e].source = edges[f].source /\ edges[e].target = edges[f].target)
      => e = f


\* ---- C19
\* add_token is idempotent: a second or later call for a token returns the
\* handle the first call returned and leaves the node count, the edge count
\* and the token map unchanged.
C19_Handle(g, token) == g.token_to_node[token]
C19_TwiceIsOnce ==
  \A token \in Tokens :
    LET g1 == add_token(nodes, token_to_node, token)
        g2 == add_token(g1.nodes, g1.token_to_node, token)
    IN /\ g2 = g1
       /\ C19_Handle(g2, token) = C19_Handle(g1, token)
       /\ C19_Handle(g1, token) \in 1..Len(g1.nodes)
C19_RepeatedCallStep ==
  ( /\ last_call' # last_call
    /\ last_call'[1] = "add_token"
    /\ last_call'[2] \in Range(nodes) )
  => /\ last_call'[3] = token_to_node[last_call'[2]]
     /\ nodes[last_call'[3]] = last_call'[2]
     /\ UNCHANGED <<nodes, edges, token_to_node>>
C19_AddTokenIdempotent ==
  [](C19_TwiceIsOnce) /\ [][C19_RepeatedCallStep]_vars
C19_Witness ==
  /\ last_call # <<>> /\ last_call[1] = "add_token"
  /\ last_call[3] = token_to_node[last_call[2]]
  /\ \E e \in 1..Len(edges) : edges[e].from_token = last_call[2]
  /\ node_count >= 2

\* ---- C20
\* update_pool never adds or removes a node or an edge: it rewrites the
\* reserves and the weight of edges that exist.  When a token of the snapshot
\* has no node it changes nothing and reports no error.
C20_SameEdge(e, f) ==
  /\ e.source = f.source /\ e.target = f.target
  /\ e.from_token = f.from_token /\ e.to_token = f.to_token
  /\ e.pool_address = f.pool_address
  /\ e.original_pool.token_a = f.original_pool.token_a
  /\ e.original_pool.token_b = f.original_pool.token_b
  /\ e.original_pool.pool_address = f.original_pool.pool_address
  /\ e.original_pool.fee = f.original_pool.fee
C20_UpdateStep ==
  n_updates' = n_updates + 1 =>
    LET s == last_call'[2]
    IN /\ last_call'[1] = "update_pool"
       /\ UNCHANGED <<nodes, token_to_node, n_pools, pc>>
       /\ Len(edges') = Len(edges)
       /\ \A e \in 1..Len(edges) : C20_SameEdge(edges'[e], edges[e])
       /\ (token_to_node[s.token_a] = 0 \/ token_to_node[s.token_b] = 0)
            => edges' = edges
C20_UpdateKeepsShape == [][C20_UpdateStep]_vars
C20_Witness ==
  /\ last_call # <<>> /\ last_call[1] = "update_pool"
  /\ edges # <<>>
  /\ token_to_node[last_call[2].token_a] # 0
  /\ token_to_node[last_call[2].token_b] = 0


\* ---- C21
\* Weights are recomputed in full on every reserve update: after update_pool
\* with a snapshot, the weight of each directed edge of that token pair equals
\* the weight a fresh add_pool of the same snapshot and fee gives to the edge
\* of the same direction, whatever the reserves were before and whichever
\* token order the snapshot uses.
C21_FreshEdges(s) ==
  add_pool(<<>>, [t \in Tokens |-> 0], <<>>, s, Config.dex_fee).edges
C21_WeightsAsFreshAdd ==
  (last_call # <<>> /\ last_call[1] = "update_pool")
    => LET s == last_call[2]
           a == token_to_node[s.token_a]
           b == token_to_node[s.token_b]
           fresh == C21_FreshEdges(s)
       IN (a # 0 /\ b # 0) =>
            \A e \in 1..Len(edges) :
              /\ (edges[e].source = a /\ edges[e].target = b)
                   => edges[e].weight = fresh[1].weight
              /\ (edges[e].source = b /\ edges[e].target = a)
                   => edges[e].weight = fresh[2].weight


\* ---- C22
\* PoolEdge::calculate_output returns nothing exactly when token_in is
\* neither token of the pool or when the input reserve, the output reserve or
\* the input amount is not positive; in every other case it returns the
\* constant-product output, and in no case does it change the reserves or the
\* weights of the pool.
C22_Returned ==
  (call.fn = "calculate_output" /\ ret[1] = "returned")
    => LET p == call.pool
           known == call.token_in \in {p.token_a, p.token_b}
           reserve_in == IF call.token_in = p.token_a THEN p.reserves_a
                         ELSE p.reserves_b
           reserve_out == IF call.token_in = p.token_a THEN p.reserves_b
                          ELSE p.reserves_a
           nothing == \/ ~known
                      \/ reserve_in <= 0 \/ reserve_out <= 0
                      \/ call.input_amount <= 0
       IN /\ ret[2][1] = ~nothing
          /\ ~nothing =>
               ret[2][2] = swap(reserve_in, reserve_out, call.input_amount,
                                p.fee)
C22_PoolKept == (call.fn = "calculate_output") => call' = call
C22_OutputOrNothing == [](C22_Returned) /\ [][C22_PoolKept]_vars
C22_Witness ==
  /\ call.fn = "calculate_output" /\ ret[1] = "returned"
  /\ call.token_in = "MOE" /\ call.pool.reserves_a # call.pool.reserves_b
  /\ ret[2][1] /\ ret[2][2] > 0


\* ---- C23
\* calculate_path_profit, given a path of at least three tokens, returns
\* nothing when a token of the path is unknown to the graph, when a
\* consecutive pair has no edge, or when the swap of a hop yields nothing;
\* otherwise it returns the amount left after replaying the swap over every
\* hop (the closing hop to the base token included when the path does not end
\* there) minus the input amount.  It never changes the graph.
C23_Hops(tokens) ==
  IF Last(tokens) = wmnt_token THEN tokens ELSE Append(tokens, wmnt_token)
C23_Edge(from, to) == find_edge(edges, token_to_node[from], token_to_node[to])
\* The amount after the hops from i on, 0 once a hop yields nothing.
RECURSIVE C23_Replay(_, _, _)
C23_Replay(tokens, i, amount) ==
  IF i >= Len(tokens) THEN amount
  ELSE LET pool == edges[C23_Edge(tokens[i], tokens[i + 1])].original_pool
           forward == tokens[i] = pool.token_a
           reserve_in == IF forward THEN pool.reserves_a ELSE pool.reserves_b
           reserve_out == IF forward THEN pool.reserves_b ELSE pool.reserves_a
       IN IF amount <= 0 \/ reserve_in <= 0 \/ reserve_out <= 0 THEN 0
          ELSE C23_Replay(tokens, i + 1,
                          swap(reserve_in, reserve_out, amount, pool.fee))
C23_Returned ==
  ( /\ call.fn = "calculate_path_profit" /\ ret[1] = "returned"
    /\ Len(call.path.tokens) >= 3 )
  => LET tokens == C23_Hops(call.path.tokens)
         unknown == \E i \in 1..Len(tokens) : token_to_node[tokens[i]] = 0
         no_edge == \E i \in 1..(Len(tokens) - 1) :
                      C23_Edge(tokens[i], tokens[i + 1]) = 0
     IN IF unknown \/ no_edge THEN ~ret[2][1]
        ELSE LET left == C23_Replay(tokens, 1, call.input_amount)
             IN IF left <= 0 THEN ~ret[2][1]
                ELSE ret[2] = <<TRUE, left - call.input_amount>>
C23_GraphKept == (call.fn = "calculate_path_profit") => UNCHANGED graph_vars
C24_SwapErodes ==
  ( /\ call.fn = "swap" /\ ret[1] = "returned"
    /\ call.x_reserve = call.y_reserve /\ call.x_reserve > 0
    /\ call.fee > 0 /\ call.fee < 1000
    /\ call.dx > 0 )
  => /\ locals # <<>>
     /\ locals[1] > 0 /\ locals[2] > 0
     /\ locals[1] < call.dx * locals[2]
     /\ ret[2] = locals[1] \div locals[2]
     /\ ret[2] >= 0 /\ ret[2] < call.dx
C24_OutputErodes ==
  ( /\ call.fn = "calculate_output" /\ ret[1] = "returned"
    /\ call.pool.reserves_a = call.pool.reserves_b /\ call.pool.reserves_a > 0
    /\ call.token_in \in {call.pool.token_a, call.pool.token_b}
    /\ call.input_amount > 0 )
  => /\ ret[2][1]
     /\ ret[2][2] > 0 /\ ret[2][2] < call.input_amount
C24_FeeErosion == C24_SwapErodes /\ C24_OutputErodes
C24_Witness ==
  /\ call.fn = "swap" /\ ret[1] = "returned"
  /\ call.x_reserve = 500 /\ call.y_reserve = 500
  /\ call.fee = 3 /\ call.dx = 400
  /\ ret[2] > 0 /\ ret[2] < 400


\* ---- C25
\* For three pools forming a cycle base -> X -> Y -> base with identical
\* positive reserves on every side and a positive fee, the round-trip profit
\* (calculate_path_profit, arbitrage_profit) is strictly negative for every
\* positive input amount, and the profit found by find_best_input is never
\* positive.
C25_EqualPools(pools) ==
  /\ Len(pools) = 3 /\ pools[1][1] > 0
  /\ \A i \in 1..3 : pools[i][1] = pools[1][1] /\ pools[i][2] = pools[1][1]
C25_EqualGraph ==
  /\ n_pools = 3 /\ n_updates = 0
  /\ \A e \in 1..Len(edges) :
       /\ edges[e].original_pool.reserves_a > 0
       /\ edges[e].original_pool.reserves_a = edges[e].original_pool.reserves_b
       /\ edges[e].original_pool.reserves_a = edges[1].original_pool.reserves_a
\* An upper bound of the amount after the three hops: every hop's quotient
\* rounded up to whole tokens.
C25_HopUp(reserve, amount, fee) ==
  LET q == swap_quotient(reserve, reserve, amount, fee)
  IN (q[1] + q[2] - 1) \div q[2]
C25_RoundTripUp(reserve, dx, fee) ==
  C25_HopUp(reserve, C25_HopUp(reserve, C25_HopUp(reserve, dx, fee), fee), fee)
C25_ProfitNegative ==
  (call.fn = "arbitrage_profit" /\ ret[1] = "returned"
     /\ C25_EqualPools(call.pools) /\ call.fee > 0 /\ call.dx > 0)
    => /\ ret[2] < 0
       /\ call.dx >= 100 =>
            C25_RoundTripUp(call.pools[1][1], call.dx, call.fee) < call.dx
C25_PathProfitNegative ==
  (call.fn = "calculate_path_profit" /\ ret[1] = "returned"
     /\ C25_EqualGraph /\ call.input_amount > 0
     /\ call.path.tokens \in {<<"WMNT", "MOE", "JOE", "WMNT">>,
                              <<"WMNT", "JOE", "MOE", "WMNT">>})
    => /\ ret[2][1] /\ ret[2][2] < 0
       /\ C25_RoundTripUp(edges[1].original_pool.reserves_a,
                          call.input_amount, Config.dex_fee)
            < call.input_amount
C25_BestProfitNotPositive ==
  (call.fn = "find_best_input" /\ ret[1] = "returned"
     /\ C25_EqualPools(call.pools) /\ call.fee > 0)
    => ret[2][1] >= 0 /\ ret[2][2] <= 0
C25_NoArbitrageFromFees ==
  C25_ProfitNegative /\ C25_PathProfitNegative /\ C25_BestProfitNotPositive
C25_Witness ==
  /\ call.fn = "calculate_path_profit" /\ ret[1] = "returned"
  /\ C25_EqualGraph /\ call.input_amount = 100
  /\ call.path.tokens = <<"WMNT", "MOE", "JOE", "WMNT">>
  /\ ret[2][1] /\ ret[2][2] < 0


\* ---- C26
\* For reserves whose first-hop input reserve R is positive and any iteration
\* count, find_best_input keeps 0 <= left <= right <= 0.999 * R in every
\* round, each round's interval is contained in the one before, and the
\* optimal input returned is the midpoint of the final interval and so lies
\* in [0, 0.999 * R].
C26_Interval ==
  (call.fn = "find_best_input" /\ locals # <<>> /\ call.pools[1][1] > 0)
    => /\ 0 <= locals.left /\ locals.left <= locals.right
       /\ locals.right * 1000 <= 999 * call.pools[1][1]
       /\ locals.round \in 0..call.iterations
       /\ ret[1] = "returned" =>
            /\ locals.round = call.iterations
            /\ ret[2][1] = (locals.left + locals.right) \div 2
            /\ locals.left <= ret[2][1] /\ ret[2][1] <= locals.right
            /\ ret[2][1] * 1000 <= 999 * call.pools[1][1]
            /\ ret[2][2] = arbitrage_profit(ret[2][1], call.pools, call.fee)
            /\ ret[2] = find_best_input(call.pools, call.fee, call.iterations)
C26_Round ==
  (call.fn = "find_best_input" /\ locals # <<>> /\ locals' # locals)
    => /\ locals'.round = locals.round + 1
       /\ locals.left <= locals'.left /\ locals'.right <= locals.right
C26_SearchStaysInDomain == [](C26_Interval) /\ [][C26_Round]_vars
C26_Witness ==
  /\ call.fn = "find_best_input" /\ ret[1] = "returned"
  /\ call.iterations = DEFAULT_TERNARY_SEARCH_ITERATIONS
  /\ locals.left > 0 /\ locals.right < (call.pools[1][1] * 999) \div 1000
  /\ locals.right - locals.left <= 1
  /\ ret[2][1] > 0


\* ---- C27
\* Every opportunity the Path Evaluator produces, from analyze_cycle or from
\* find_optimal_arbitrage, has final_output = optimal_input + gross_profit,
\* net_profit = gross_profit - the execution cost charged for it, and
\* profit_percentage = net_profit / optimal_input * 100 when optimal_input
\* is positive, 0 otherwise.
C27_Produced ==
  /\ call # <<>> /\ call.fn \in {"analyze_cycle", "find_optimal_arbitrage"}
  /\ ret[1] = "returned" /\ ret[2] # <<>>
C27_Cost ==
  IF call.fn = "analyze_cycle" THEN calculate_gas_cost(call.cycle)
  ELSE GAS_UNITS_3_HOPS * Config.gas_price
C27_OpportunityArithmetic ==
  C27_Produced =>
    LET opp == ret[2][1]
    IN /\ opp.final_output = opp.optimal_input + opp.gross_profit
       /\ opp.net_profit = opp.gross_profit - C27_Cost
       /\ opp.optimal_input > 0 =>
            opp.profit_percentage = (opp.net_profit * 100) \div opp.optimal_input
       /\ opp.optimal_input <= 0 => opp.profit_percentage = 0
C27_Witness ==
  /\ C27_Produced /\ call.fn = "analyze_cycle"
  /\ ret[2][1].optimal_input > 0 /\ ret[2][1].gross_profit > 0
  /\ ret[2][1].net_profit # ret[2][1].gross_profit
  /\ ret[2][1].profit_percentage > 0
C27_WitnessZeroInput ==
  /\ C27_Produced /\ ret[2][1].optimal_input = 0
  /\ ret[2][1].profit_percentage = 0 /\ ret[2][1].net_profit < 0


\* ---- C28
\* No abort originates from the core: on every graph built by add_pool and
\* update_pool calls with malformed snapshots (zero reserves, a pool whose
\* two tokens are the same token, repeated pools), every index the search
\* and the evaluation of the returned paths use is in range and no unsigned
\* subtraction goes below zero.
\* The indices of spfa_detect_negative_cycles: the four arrays have one slot
\* per node, and the queued nodes, the edge ends and the flagged nodes are
\* nodes of the graph.
C28_SearchInRange ==
  pc \in {"spfa", "extract"} =>
    /\ Len(dist) = node_count /\ Len(predecessor) = node_count
    /\ Len(in_queue) = node_count /\ Len(queue_count) = node_count
    /\ \A i \in 1..Len(queue) : queue[i] \in 1..node_count
    /\ \A e \in 1..Len(edges) :
         edges[e].source \in 1..node_count /\ edges[e].target \in 1..node_count
    /\ negative_cycle_nodes \subseteq 1..node_count
    /\ to_extract \subseteq 1..node_count
\* The indices of reconstruct_cycle: every predecessor is None or a node.
C28_WalkInRange ==
  pc \in {"spfa", "extract"} =>
    \A v \in 1..Len(predecessor) : predecessor[v] \in 0..node_count
\* The indices of convert_node_path_to_arbitrage_path and cycle_to_pools:
\* the node paths kept hold nodes of the graph, tokens.len() - 1 is taken of
\* a list that is not empty, and find_best_input finds pools[0].
C28_PathsInRange ==
  /\ \A k \in 1..Len(node_cycles) :
       /\ Len(node_cycles[k]) >= 1
       /\ \A i \in 1..Len(node_cycles[k]) : node_cycles[k][i] \in 1..node_count
  /\ \A k \in 1..Len(cycles) :
       /\ Len(cycles[k].tokens) - 1 >= 0
       /\ LET pools == cycle_to_pools(token_to_node, edges, cycles[k])
          IN pools[1] => Len(pools[2]) >= 1
\* Every returned path is evaluated before find_all_opportunities returns.
C28_AllEvaluated ==
  (pc = "done" /\ caller = "find_all_opportunities") =>
    /\ result # <<>>
    /\ DOMAIN eval_slots = 1..Len(cycles)
C28_NoAbort ==
  C28_SearchInRange /\ C28_WalkInRange /\ C28_PathsInRange /\ C28_AllEvaluated
C28_Witness ==
  /\ pc = "done" /\ caller = "find_all_opportunities"
  /\ \E e \in 1..Len(edges) : edges[e].source = edges[e].target
  /\ \E e \in 1..Len(edges) :
       edges[e].original_pool.reserves_a = 0 \/ edges[e].original_pool.reserves_b = 0
  /\ Len(cycles) >= 1
  /\ Len(result[1].opportunities) = Len(cycles)
  /\ \E k \in 1..Len(cycles) :
       \E i \in 1..(Len(cycles[k].tokens) - 1) :
         cycles[k].tokens[i] = cycles[k].tokens[i + 1]


\* ---- C29
\* Every path find_arbitrage_cycles returns is a negative-weight closed walk
\* in the direction it is listed: the weights of the edges from token i to
\* token i + 1, summed over its hops, are negative.
RECURSIVE C29_WalkWeight(_, _)
C29_WalkWeight(tokens, i) ==
  IF i >= Len(tokens) THEN 0
  ELSE LET e == find_edge(edges, token_to_node[tokens[i]],
                          token_to_node[tokens[i + 1]])
       IN FAdd(IF e = 0 THEN INFINITY ELSE edges[e].weight,
               C29_WalkWeight(tokens, i + 1))
RECURSIVE C30_Extracted(_, _, _, _)
C30_Extracted(pred, mh, path, current) ==
  IF current \in Range(path)
  THEN Append(SubSeq(path, Position(path, current), Len(path)), current)
  ELSE IF pred[current] = 0 \/ Len(path) + 1 > mh * 2 THEN <<>>
  ELSE C30_Extracted(pred, mh, Append(path, current), pred[current])
\* r lists each step of the closed cycle c once, starting at its own head.
C30_Traverses(r, c) ==
  /\ Len(r) = Len(c)
  /\ Range(r) = Range(c)
  /\ \A i, j \in 1..(Len(r) - 1) : (i # j) => r[i] # r[j]
  /\ \A i \in 1..(Len(r) - 1) :
       \E j \in 1..(Len(c) - 1) : c[j] = r[i] /\ c[j + 1] = r[i + 1]
C30_RotationKeepsCycle ==
  pc = "extract" =>
    \A start_node \in negative_cycle_nodes :
      LET wmnt_node == token_to_node[wmnt_token]
          c == C30_Extracted(predecessor, max_hops, <<>>, start_node)
          r == reconstruct_cycle(edges, start_node, predecessor, wmnt_node,
                                 max_hops)
      IN (c # <<>> /\ wmnt_node \in Range(c)) =>
           /\ r # <<>>
           /\ Head(r) = wmnt_node /\ Last(r) = wmnt_node
           /\ C30_Traverses(r, c)


\* ---- C31
\* Throughout the search the queue never holds the same node twice:
\* in_queue[v] is true exactly when v is in the queue; a loop turn changes a
\* distance or a predecessor only to a strictly smaller distance, and it
\* enqueues only nodes that were not queued (the node just popped counts as
\* not queued).
C31_QueueOnce ==
  pc = "spfa" =>
    /\ \A i, j \in 1..Len(queue) : (i # j) => queue[i] # queue[j]
    /\ \A v \in 1..node_count : in_queue[v] <=> (v \in Range(queue))
C31_TurnStep ==
  (pc = "spfa" /\ pc' = "spfa" /\ queue # <<>>) =>
    /\ \A v \in 1..node_count :
         /\ (dist'[v] # dist[v]) => dist'[v] < dist[v]
         /\ (predecessor'[v] # predecessor[v]) => dist'[v] < dist[v]
    /\ \A v \in Range(queue') \ Range(Tail(queue)) : dist'[v] < dist[v]
    /\ Len(queue') <= Len(Tail(queue)) + Cardinality(Range(queue') \ Range(Tail(queue)))
C31_QueueDiscipline == [](C31_QueueOnce) /\ [][C31_TurnStep]_vars
C31_Witness ==
  /\ pc = "spfa" /\ Len(queue) >= 2
  /\ \E v \in 1..node_count : queue_count[v] >= 2 /\ in_queue[v]
  /\ \E v \in 1..node_count : predecessor[v] = v


\* ---- C32
\* Every path find_arbitrage_cycles returns is a simple cycle: the base token
\* is its first and last element only, and no other token occurs twice.
C32_Simple(t) ==
  /\ Head(t) = wmnt_token /\ Last(t) = wmnt_token
  /\ \A i \in 2..(Len(t) - 1) : t[i] # wmnt_token
  /\ \A i, j \in 2..(Len(t) - 1) : (i # j) => t[i] # t[j]
C32_SplicedOrSimple(t) ==
  /\ Head(t) = wmnt_token /\ Last(t) = wmnt_token
  /\ \A i \in 2..(Len(t) - 1) : t[i] # wmnt_token
  /\ \A i, j \in 2..(Len(t) - 1) :
       (i < j /\ t[i] = t[j]) => (i = 2 /\ j = Len(t) - 1)
C32_WitnessSimple ==
  /\ pc = "done" /\ \E k \in 1..Len(cycles) : C32_Simple(cycles[k].tokens)


\* ---- C33
\* One call of find_arbitrage_cycles never returns the same path twice, also
\* when several flagged nodes lead by their predecessor chains into the same
\* cycle; so no path is evaluated twice in one pass.
C33_NoPathTwice ==
  /\ \A i, j \in 1..Len(cycles) : (i # j) => cycles[i] # cycles[j]
  /\ (pc = "done" /\ result # <<>>) =>
       \A i, j \in 1..Len(result[1].opportunities) :
         (i # j) => result[1].opportunities[i].path
                      # result[1].opportunities[j].path


\* ---- C34
\* For every opportunity that carries a path, the gas units of
\* ArbitrageOpportunity::gas_cost (by hop count) are the gas units of the
\* path's expected_gas_units (by path type), so the cost reported for an
\* opportunity is the cost taken off its gross profit in the evaluation.
C34_ReportedCostIsChargedCost ==
  (pc = "done" /\ result # <<>>) =>
    \A i \in 1..Len(result[1].opportunities) :
      LET opp == result[1].opportunities[i]
      IN opp.path # <<>> =>
           /\ gas_cost_units(opp) = expected_gas_units(opp.path[1])
           /\ opportunity_gas_cost(opp) = opp.gross_profit - opp.net_profit


\* ---- C35
\* For every opportunity collection, MultiPathOpportunity::new sets
\* best_opportunity to the opportunity select_best returns for MaxProfit on
\* that collection; best_opportunity is absent when no opportunity has a
\* positive net profit.
C35_BestIsMaxProfitChoice ==
  (sel_strategy = "MaxProfit" /\ sel_result[1] = "returned") =>
    LET new == MultiPathOpportunity(sel_opportunities)
    IN /\ new.best_opportunity = sel_result[2]
       /\ (\A i \in 1..Len(sel_opportunities) :
             ~is_profitable(sel_opportunities[i]))
            => new.best_opportunity = <<>>


\* ---- C36
\* prepare_pools_for_search returns, for each of the three snapshots and in
\* whichever of the two token orders the snapshot comes, the pair (reserve
\* of the token swapped in, reserve of the token swapped out) along
\* WMNT -> MOE -> JOE -> WMNT, and nothing when a snapshot's tokens are not
\* the pair expected at its position.
C36_ReserveOf(s, token) ==
  IF s.token_a = token THEN s.reserve_a ELSE s.reserve_b
C36_IsPoolOf(s, x, y) ==
  <<s.token_a, s.token_b>> \in {<<x, y>>, <<y, x>>}
C36_PairsAlongTriangle ==
  (call # <<>> /\ call.fn = "prepare_pools_for_search"
     /\ ret[1] = "returned") =>
    LET ok == /\ C36_IsPoolOf(call.moe_wmnt, "WMNT", "MOE")
              /\ C36_IsPoolOf(call.joe_moe, "MOE", "JOE")
              /\ C36_IsPoolOf(call.joe_wmnt, "JOE", "WMNT")
    IN /\ ret[2][1] <=> ok
       /\ ok => ret[2][2] =
            << <<C36_ReserveOf(call.moe_wmnt, "WMNT"),
                 C36_ReserveOf(call.moe_wmnt, "MOE")>>,
               <<C36_ReserveOf(call.joe_moe, "MOE"),
                 C36_ReserveOf(call.joe_moe, "JOE")>>,
               <<C36_ReserveOf(call.joe_wmnt, "JOE"),
                 C36_ReserveOf(call.joe_wmnt, "WMNT")>> >>
C36_Witness ==
  /\ call # <<>> /\ call.fn = "prepare_pools_for_search"
  /\ ret[1] = "returned" /\ ret[2][1]
  /\ call.moe_wmnt.token_a = "MOE" /\ call.joe_moe.token_a = "MOE"
  /\ call.joe_wmnt.token_a = "WMNT"
  /\ ret[2][2] = << <<1000, 900>>, <<1100, 1200>>, <<500, 0>> >>
C36_WitnessNothing ==
  /\ call # <<>> /\ call.fn = "prepare_pools_for_search"
  /\ ret[1] = "returned" /\ ~ret[2][1]
  /\ C36_IsPoolOf(call.moe_wmnt, "WMNT", "MOE")
  /\ C36_IsPoolOf(call.joe_moe, "MOE", "JOE")

\* ------------------------------------------- fetch_all_reserves_with_retry

\* The most attempts a caller of the model allows (Config::max_retries).
MaxRetries == 3

\* The block number a fetch is made at.
FetchBlock == 7

\* What getReserves can report for a pool at the time of a call.
ChainReadings(pool_address) ==
  CASE pool_address = 1 ->
         {Snap("WMNT", 1000, "MOE", 900, 1), Snap("MOE", 1100, "WMNT", 1000, 1)}
    [] pool_address = 2 ->
         {Snap("MOE", 1000, "JOE", 1100, 2), Snap("MOE", 0, "JOE", 1100, 2)}
    [] pool_address = 3 -> {Snap("JOE", 1000, "WMNT", 1200, 3)}
    [] pool_address = 6 ->
         {Snap("JOE", 1200, "MOE", 900, 6), Snap("JOE", 1000, "MOE", 900, 6)}

\* fetch_pool_reserves when getReserves answers: <<"Ok", PoolReserves>>
\* stamped with the block number passed; <<"Err">> is a call that failed.
\* `attempt` is history: the attempt of the retry loop that made the call.
fetch_pool_reserves(reading, block_number, attempt) ==
  <<"Ok", [token_a |-> reading.token_a, reserve_a |-> reading.reserve_a,
           token_b |-> reading.token_b, reserve_b |-> reading.reserve_b,
           pool_address |-> reading.pool_address,
           block_number |-> block_number, attempt |-> attempt]>>

\* What the calls of one attempt can come back with, one per requested pool,
\* in the order requested (join_all).
AttemptResults(pool_addresses, block_number, attempt) ==
  {r \in [1..Len(pool_addresses) ->
            {<<"Err">>} \cup
            UNION {{fetch_pool_reserves(x, block_number, attempt) :
                      x \in ChainReadings(a)} : a \in Range(pool_addresses)}] :
     \A i \in 1..Len(pool_addresses) :
       r[i][1] = "Err" \/ r[i][2].pool_address = pool_addresses[i]}

\* A faulty scan of the results for sensitivity runs: all_succeeded is never
\* cleared.
AttemptMap_never_failed(pool_addresses, results) ==
  LET errs == {i \in 1..Len(results) : results[i][1] = "Err"}
      first_err == IF errs = {} THEN Len(results) + 1
                   ELSE CHOOSE i \in errs : \A j \in errs : i <= j
      kept == 1..(first_err - 1)
      last(a) == CHOOSE i \in kept :
                   /\ pool_addresses[i] = a
                   /\ \A j \in kept : pool_addresses[j] = a => j <= i
  IN [all_succeeded |-> TRUE,
      reserves_map |-> [a \in {pool_addresses[i] : i \in kept} |->
                          results[last(a)][2]]]

\* The scan of one attempt's results: every Ok is inserted under its pool
\* address until the first Err, which clears all_succeeded and ends the scan.
AttemptMap(pool_addresses, results) ==
  LET errs == {i \in 1..Len(results) : results[i][1] = "Err"}
      first_err == IF errs = {} THEN Len(results) + 1
                   ELSE CHOOSE i \in errs : \A j \in errs : i <= j
      kept == 1..(first_err - 1)
      last(a) == CHOOSE i \in kept :
                   /\ pool_addresses[i] = a
                   /\ \A j \in kept : pool_addresses[j] = a => j <= i
  IN [all_succeeded |-> errs = {},
      reserves_map |-> [a \in {pool_addresses[i] : i \in kept} |->
                          results[last(a)][2]]]

\* The pool lists fetch_all_reserves_with_retry is called with.
FetchPoolLists == {<<>>, <<1>>, <<1, 2>>, <<1, 1>>, <<1, 2, 3>>}

\* A call of fetch_all_reserves_with_retry at its first line: attempts = 0.
\* `tried` is history: the attempts started.
FetchCall(pool_addresses, block_number, max_retries) ==
  [pool_addresses |-> pool_addresses, block_number |-> block_number,
   max_retries |-> max_retries, attempts |-> 0, tried |-> 0,
   ret |-> <<"pending">>]

InitFetch ==
  /\ nodes = <<>> /\ edges = <<>>
  /\ token_to_node = [t \in Tokens |-> 0]
  /\ n_pools = 0 /\ n_updates = 0
  /\ last_call = <<>>
  /\ pc = "idle"
  /\ NoSearch
  /\ NoSelection
  /\ NoCall
  /\ batch = <<>> /\ mp_loop = <<>> /\ tri_loop = <<>>
  /\ fetch \in {FetchCall(p, FetchBlock, m) :
                  p \in FetchPoolLists, m \in 0..MaxRetries}

fetch_frame == <<graph_vars, pc, search_vars, eval_vars, sel_vars, call_vars,
                 batch, mp_loop, tri_loop>>

\* One turn of the while loop: every pool is fetched, the results are
\* scanned, and the map is returned or the attempt is counted.
FetchAttempt ==
  /\ fetch.ret = <<"pending">>
  /\ fetch.attempts < fetch.max_retries
  /\ \E results \in AttemptResults(fetch.pool_addresses, fetch.block_number,
                                   fetch.tried + 1) :
       LET scan == AttemptMap(fetch.pool_addresses, results) IN
       fetch' = IF scan.all_succeeded
                THEN [fetch EXCEPT !.tried = @ + 1,
                                   !.ret = <<"Ok", scan.reserves_map>>]
                ELSE [fetch EXCEPT !.tried = @ + 1, !.attempts = @ + 1]
  /\ UNCHANGED fetch_frame

\* The loop condition fails: Err("Failed to fetch reserves after maximum
\* retries").
FetchExhausted ==
  /\ fetch.ret = <<"pending">>
  /\ ~(fetch.attempts < fetch.max_retries)
  /\ fetch' = [fetch EXCEPT !.ret = <<"Err">>]
  /\ UNCHANGED fetch_frame

NextFetch == FetchAttempt \/ FetchExhausted

SpecFetch == InitFetch /\ [][NextFetch]_vars

\* C37: fetch_all_reserves_with_retry starts at most max_retries attempts;
\* a returned map has exactly the requested pools as its keys, each with
\* that pool's reserves at the block asked for, all fetched in the last
\* attempt started; an error is returned only after max_retries attempts
\* that each failed, which is after no attempt when max_retries is 0.
C37_AllOrNothing ==
  fetch # <<>> =>
    /\ fetch.tried <= fetch.max_retries
    /\ fetch.ret[1] = "Ok" =>
         /\ fetch.tried >= 1
         /\ DOMAIN fetch.ret[2] = Range(fetch.pool_addresses)
         /\ \A a \in DOMAIN fetch.ret[2] :
              /\ fetch.ret[2][a].pool_address = a
              /\ fetch.ret[2][a].attempt = fetch.tried
              /\ fetch.ret[2][a].block_number = fetch.block_number
    /\ fetch.ret[1] = "Err" =>
         /\ fetch.tried = fetch.max_retries
         /\ fetch.attempts = fetch.max_retries
    /\ fetch.max_retries = 0 => fetch.tried = 0 /\ fetch.ret[1] # "Ok"

\* A map returned by a second attempt, after an attempt in which a pool failed.
C37_Witness ==
  /\ fetch # <<>>
  /\ fetch.ret[1] = "Ok" /\ fetch.tried = 2 /\ fetch.attempts = 1
  /\ Len(fetch.pool_addresses) = 3

\* An error returned with max_retries = 0, no pool having been asked.
C37_WitnessNoAttempt ==
  /\ fetch # <<>>
  /\ fetch.ret[1] = "Err" /\ fetch.max_retries = 0 /\ fetch.tried = 0

\* ------------------------------- BatchReservesFetcher, update_pool_reserves

\* fetch_all_reserves_with_retry as a function of what its attempts come back
\* with: outcomes[k] holds the results of attempt k.  <<"Ok", map>> or
\* <<"Err">>.
RECURSIVE RetryLoop(_, _, _, _)
RetryLoop(outcomes, pool_addresses, max_retries, attempts) ==
  IF ~(attempts < max_retries) THEN <<"Err">>
  ELSE LET scan == AttemptMap(pool_addresses, outcomes[attempts + 1]) IN
       IF scan.all_succeeded THEN <<"Ok", scan.reserves_map>>
       ELSE RetryLoop(outcomes, pool_addresses, max_retries, attempts + 1)

fetch_all_reserves_with_retry(outcomes, pool_addresses, max_retries) ==
  RetryLoop(outcomes, pool_addresses, max_retries, 0)

\* What the attempts of one call can come back with.
FetchOutcomes(pool_addresses, block_number, max_retries) ==
  {o \in [1..max_retries ->
            UNION {AttemptResults(pool_addresses, block_number, k) :
                     k \in 1..max_retries}] :
     \A k \in 1..max_retries :
       o[k] \in AttemptResults(pool_addresses, block_number, k)}

\* slice::chunks: chunk k of the pool list, of batch_size addresses but for
\* the last one.
ChunkCount(pool_addresses, batch_size) ==
  (Len(pool_addresses) + batch_size - 1) \div batch_size

Chunk(pool_addresses, batch_size, k) ==
  SubSeq(pool_addresses, (k - 1) * batch_size + 1,
         IF k * batch_size < Len(pool_addresses) THEN k * batch_size
         ELSE Len(pool_addresses))

\* HashMap::insert of every entry of `map` into `all_reserves`.
MergeReserves(all_reserves, map) ==
  [a \in DOMAIN all_reserves \cup DOMAIN map |->
     IF a \in DOMAIN map THEN map[a] ELSE all_reserves[a]]

\* The rows of the pool CSV the fetcher and the analyzer are both loaded from.
BatchPoolRows ==
  {<<Snap("WMNT", 1000, "MOE", 900, 1), Snap("MOE", 1000, "JOE", 1100, 2),
     Snap("JOE", 1000, "WMNT", 1200, 3)>>,
   <<Snap("WMNT", 1000, "MOE", 900, 1), Snap("MOE", 1000, "JOE", 1100, 2),
     Snap("JOE", 1200, "MOE", 900, 6)>>}

\* The batch sizes set_batch_size leaves (at least 1; 50 is the default).
BatchSizes == {1, 2, 50}

\* The max_retries BatchReservesFetcher::new is given.
BatchMaxRetries == 2

\* BatchReservesFetcher::fetch_all_reserves at its first line.  History:
\* `exhausted`, the chunks whose fetch returned Err; `delivered`, the map of
\* every chunk whose fetch returned Ok; `before`, the edges when
\* update_pool_reserves was entered.
BatchCall(pool_addresses, batch_size, max_retries, current_block) ==
  [pool_addresses |-> pool_addresses, batch_size |-> batch_size,
   max_retries |-> max_retries, current_block |-> current_block,
   chunk |-> 0, all_reserves |-> <<>>, exhausted |-> {}, delivered |-> <<>>,
   ret |-> <<"pending">>, stage |-> "fetching", before |-> <<>>]

InitBatch ==
  /\ \E rows \in BatchPoolRows :
       LET g == GraphOf([nodes |-> <<>>,
                         token_to_node |-> [t \in Tokens |-> 0],
                         edges |-> <<>>], rows)
       IN /\ nodes = g.nodes /\ edges = g.edges
          /\ token_to_node = g.token_to_node
          /\ n_pools = Len(rows)
          /\ last_call = <<"add_pool", rows[Len(rows)]>>
          /\ batch \in {BatchCall([i \in 1..Len(rows) |-> rows[i].pool_address],
                                  b, m, FetchBlock) :
                          b \in BatchSizes, m \in 0..BatchMaxRetries}
  /\ n_updates = 0
  /\ pc = "idle"
  /\ NoSearch
  /\ NoSelection
  /\ NoCall
  /\ fetch = <<>> /\ mp_loop = <<>> /\ tri_loop = <<>>

batch_frame == <<nodes, token_to_node, n_pools, pc, search_vars, eval_vars,
                 sel_vars, call_vars, fetch, mp_loop, tri_loop>>

\* One turn of the for loop over the chunks: the chunk is fetched with
\* retries; a map is merged, an error is only printed.
BatchChunk ==
  /\ batch.stage = "fetching"
  /\ batch.chunk < ChunkCount(batch.pool_addresses, batch.batch_size)
  /\ LET k == batch.chunk + 1
         chunk_vec == Chunk(batch.pool_addresses, batch.batch_size, k)
     IN \E outcomes \in FetchOutcomes(chunk_vec, batch.current_block,
                                      batch.max_retries) :
          LET batch_result ==
                fetch_all_reserves_with_retry(outcomes, chunk_vec,
                                              batch.max_retries)
          IN batch' =
               IF batch_result[1] = "Ok"
               THEN [batch EXCEPT
                       !.chunk = k,
                       !.all_reserves = MergeReserves(@, batch_result[2]),
                       !.delivered = Append(@, <<k, batch_result[2]>>)]
               ELSE [batch EXCEPT !.chunk = k,
                                  !.exhausted = @ \cup {k}]
  /\ UNCHANGED <<edges, n_updates, last_call, batch_frame>>

\* The loop is over: Ok(all_reserves).
BatchReturn ==
  /\ batch.stage = "fetching"
  /\ batch.chunk = ChunkCount(batch.pool_addresses, batch.batch_size)
  /\ batch' = [batch EXCEPT !.ret = <<"Ok", batch.all_reserves>>,
                            !.stage = "returned"]
  /\ UNCHANGED <<edges, n_updates, last_call, batch_frame>>

\* The orders HashMap::values can yield the entries of a map in.
ValueOrders(map) ==
  {o \in [1..Cardinality(DOMAIN map) -> DOMAIN map] :
     \A i, j \in DOMAIN o : i # j => o[i] # o[j]}

\* update_pool for the entries of the map in the order given.
RECURSIVE UpdateAll(_, _, _, _)
UpdateAll(t2n, es, map, order) ==
  IF order = <<>> THEN es
  ELSE UpdateAll(t2n, update_pool(t2n, es, map[Head(order)]), map,
                 Tail(order))

\* MultiPathAnalyzer::update_pool_reserves(&reserves_map): graph.update_pool
\* for every value of the map.
update_pool_reserves(t2n, es, reserves_map, order) ==
  UpdateAll(t2n, es, reserves_map, order)

\* update_pool_reserves on the map fetch_all_reserves returned.
BatchUpdatePoolReserves ==
  /\ batch.stage = "returned"
  /\ \E order \in ValueOrders(batch.ret[2]) :
       edges' = update_pool_reserves(token_to_node, edges, batch.ret[2], order)
  /\ n_updates' = n_updates + Cardinality(DOMAIN batch.ret[2])
  /\ batch' = [batch EXCEPT !.stage = "updated", !.before = edges]
  /\ UNCHANGED <<last_call, batch_frame>>

NextBatch == BatchChunk \/ BatchReturn \/ BatchUpdatePoolReserves

SpecBatch == InitBatch /\ [][NextBatch]_vars

\* ---- C38

\* The chunks of the call that hold pool address a.
C38_ChunksOf(a) ==
  {k \in 1..batch.chunk :
     a \in Range(Chunk(batch.pool_addresses, batch.batch_size, k))}

\* fetch_all_reserves returns a map, never an error, once every chunk has been
\* tried; the map holds, for every chunk that was fetched, the reserves that
\* chunk delivered (those of the later chunk when two chunks name the same
\* pool), and nothing for a pool whose chunks were all exhausted.
C38_BatchesIndependent ==
  batch # <<>> =>
    /\ batch.ret[1] \in {"pending", "Ok"}
    /\ batch.ret[1] = "Ok" =>
         batch.chunk = ChunkCount(batch.pool_addresses, batch.batch_size)
    /\ batch.stage # "fetching" =>
         /\ batch.ret[2] = batch.all_reserves
         /\ \A i \in 1..Len(batch.delivered) :
              \A a \in DOMAIN batch.delivered[i][2] :
                /\ a \in DOMAIN batch.ret[2]
                /\ (\A j \in (i + 1)..Len(batch.delivered) :
                      a \notin DOMAIN batch.delivered[j][2])
                   => batch.ret[2][a] = batch.delivered[i][2][a]
         /\ \A a \in Range(batch.pool_addresses) :
              C38_ChunksOf(a) \subseteq batch.exhausted
                => a \notin DOMAIN batch.ret[2]
         /\ DOMAIN batch.ret[2] \subseteq Range(batch.pool_addresses)

\* C38: BatchReservesFetcher::fetch_all_reserves never fails as a whole, an
\* exhausted batch contributes no entries and the other batches' reserves are
\* returned; after update_pool_reserves every edge of a pool that is missing
\* from the returned map has the reserves and the weight it had before.
C38_MissingPoolsKeepReserves ==
  /\ C38_BatchesIndependent
  /\ (batch # <<>> /\ batch.stage = "updated") =>
       /\ Len(edges) = Len(batch.before)
       /\ \A e \in 1..Len(edges) :
            edges[e].pool_address \notin DOMAIN batch.ret[2]
              => edges[e] = batch.before[e]

\* A call in which one batch was exhausted and another delivered, after
\* update_pool_reserves.
C38_Witness ==
  /\ batch # <<>> /\ batch.stage = "updated"
  /\ batch.exhausted # {} /\ batch.delivered # <<>>
  /\ edges # batch.before

\* ------------------------------------------------ run_multi_path_arbitrage

\* BatchReservesFetcher::fetch_all_reserves as a function of what the fetches
\* of its chunks come back with: outcomes[k] holds the attempts of chunk k.
RECURSIVE BatchLoop(_, _, _, _, _, _)
BatchLoop(outcomes, pool_addresses, batch_size, max_retries, k, all_reserves) ==
  IF k > ChunkCount(pool_addresses, batch_size) THEN <<"Ok", all_reserves>>
  ELSE LET batch_result ==
             fetch_all_reserves_with_retry(
               outcomes[k], Chunk(pool_addresses, batch_size, k), max_retries)
       IN BatchLoop(outcomes, pool_addresses, batch_size, max_retries, k + 1,
                    IF batch_result[1] = "Ok"
                    THEN MergeReserves(all_reserves, batch_result[2])
                    ELSE all_reserves)

fetch_all_reserves(outcomes, pool_addresses, batch_size, max_retries) ==
  BatchLoop(outcomes, pool_addresses, batch_size, max_retries, 1, <<>>)

\* What the chunks' fetches of one call can come back with.
BatchOutcomes(pool_addresses, batch_size, max_retries, current_block) ==
  LET n == ChunkCount(pool_addresses, batch_size)
      of(k) == FetchOutcomes(Chunk(pool_addresses, batch_size, k),
                             current_block, max_retries)
  IN {o \in [1..n -> UNION {of(k) : k \in 1..n}] :
        \A k \in 1..n : o[k] \in of(k)}

\* The polls of a run of the model.
MaxPolls == 4

\* The block numbers get_current_block reports.
Blocks == {1, 2}

\* The batch size of the monitor's fetcher in the model.
MonitorBatchSize == 2

\* A faulty test for sensitivity runs: only a higher block number is new.
block_is_new_higher(current_block, last_block, iteration_count) ==
  current_block > last_block \/ iteration_count = 1

\* The test of the poll loop: the block has changed or it is the first
\* iteration.
block_is_new(current_block, last_block, iteration_count) ==
  current_block # last_block \/ iteration_count = 1

\* run_multi_path_arbitrage before its loop: the fetcher and the analyzer are
\* loaded from the pool CSV, last_block = 0, iteration_count = 0.  `polls` is
\* history: for every poll the answer to the block query, whether reserves
\* were fetched, and whether find_all_opportunities was run.
InitMonitor ==
  /\ \E rows \in BatchPoolRows :
       LET g == GraphOf([nodes |-> <<>>,
                         token_to_node |-> [t \in Tokens |-> 0],
                         edges |-> <<>>], rows)
       IN /\ nodes = g.nodes /\ edges = g.edges
          /\ token_to_node = g.token_to_node
          /\ n_pools = Len(rows)
          /\ last_call = <<"add_pool", rows[Len(rows)]>>
          /\ \E m \in 0..1 :
               mp_loop = [pool_addresses |->
                            [i \in 1..Len(rows) |-> rows[i].pool_address],
                          batch_size |-> MonitorBatchSize, max_retries |-> m,
                          last_block |-> 0, iteration_count |-> 0,
                          polls |-> <<>>]
  /\ n_updates = 0
  /\ pc = "idle"
  /\ NoSearch
  /\ NoSelection
  /\ NoCall
  /\ fetch = <<>> /\ batch = <<>> /\ tri_loop = <<>>

monitor_frame == <<nodes, token_to_node, n_pools, pc, search_vars, eval_vars,
                   sel_vars, call_vars, fetch, batch, tri_loop>>

\* One turn of the loop in which get_current_block fails: the turn is
\* counted and nothing else happens.
PollQueryFails ==
  /\ mp_loop.iteration_count < MaxPolls
  /\ mp_loop' = [mp_loop EXCEPT
                   !.iteration_count = @ + 1,
                   !.polls = Append(@, [query |-> <<"Err">>, fetched |-> FALSE,
                                        passed |-> FALSE])]
  /\ UNCHANGED <<edges, n_updates, last_call, monitor_frame>>

\* One turn of the loop in which get_current_block answers: when the block
\* is new, the reserves are fetched in batches, the graph is updated with the
\* map returned and find_all_opportunities is run on it; otherwise nothing.
PollBlock ==
  /\ mp_loop.iteration_count < MaxPolls
  /\ \E current_block \in Blocks :
       LET iteration_count == mp_loop.iteration_count + 1 IN
       IF block_is_new(current_block, mp_loop.last_block, iteration_count)
       THEN \E outcomes \in BatchOutcomes(mp_loop.pool_addresses,
                                          mp_loop.batch_size,
                                          mp_loop.max_retries, current_block) :
              LET fetched == fetch_all_reserves(outcomes,
                               mp_loop.pool_addresses, mp_loop.batch_size,
                               mp_loop.max_retries)
              IN /\ \E order \in ValueOrders(fetched[2]) :
                      edges' = update_pool_reserves(token_to_node, edges,
                                                    fetched[2], order)
                 /\ n_updates' = n_updates + Cardinality(DOMAIN fetched[2])
                 /\ mp_loop' =
                      [mp_loop EXCEPT
                         !.iteration_count = iteration_count,
                         !.last_block = current_block,
                         !.polls = Append(@, [query |-> <<"Ok", current_block>>,
                                              fetched |-> TRUE,
                                              passed |-> fetched[1] = "Ok"])]
       ELSE /\ mp_loop' =
                 [mp_loop EXCEPT
                    !.iteration_count = iteration_count,
                    !.polls = Append(@, [query |-> <<"Ok", current_block>>,
                                         fetched |-> FALSE, passed |-> FALSE])]
            /\ UNCHANGED <<edges, n_updates>>
  /\ UNCHANGED <<last_call, monitor_frame>>

NextMonitor == PollQueryFails \/ PollBlock

SpecMonitor == InitMonitor /\ [][NextMonitor]_vars

\* ---- C39

\* The polls before poll i whose block query was answered.
C39_Observed(i) == {j \in 1..(i - 1) : mp_loop.polls[j].query[1] = "Ok"}

\* The block number observed last before poll i (there is one).
C39_LastObserved(i) ==
  LET j == CHOOSE j \in C39_Observed(i) : \A h \in C39_Observed(i) : h <= j
  IN mp_loop.polls[j].query[2]

ReservesCache == [data |-> <<>>, last_block |-> 0]

\* ReservesCache::has_changed
has_changed(cache, block_number) == block_number > cache.last_block

\* A faulty comparison for sensitivity runs: every map counts as changed.
reserves_changed_always(cache, new_reserves) == TRUE

\* ReservesCache::reserves_changed: another number of entries, an address the
\* cache does not hold, or another reserve_a or reserve_b for an address.
reserves_changed(cache, new_reserves) ==
  IF Cardinality(DOMAIN cache.data) # Cardinality(DOMAIN new_reserves)
  THEN TRUE
  ELSE \E addr \in DOMAIN new_reserves :
         \/ addr \notin DOMAIN cache.data
         \/ cache.data[addr].reserve_a # new_reserves[addr].reserve_a
         \/ cache.data[addr].reserve_b # new_reserves[addr].reserve_b

\* ReservesCache::update for every entry of the map: each entry is inserted
\* and last_block becomes its block_number, which is the same for all the
\* entries of one fetch.
cache_update_all(cache, reserves_map) ==
  [data |-> MergeReserves(cache.data, reserves_map),
   last_block |-> IF DOMAIN reserves_map = {} THEN cache.last_block
                  ELSE reserves_map[CHOOSE a \in DOMAIN reserves_map : TRUE]
                         .block_number]

\* The pools of the triangle: MOE-WMNT, JOE-MOE, JOE-WMNT.
TrianglePools == <<1, 2, 3>>

\* The block numbers get_block_number reports to the triangular monitor.
TriangleBlocks == {1, 2, 3}

\* main before its loop: an empty cache.  History: `polls` counts the turns
\* of the loop; `last` records the last turn: the answer to the block query,
\* the cache before the turn, how the fetch ended ("none" when none was
\* made), the map fetched, and whether find_optimal_arbitrage was run.
InitTriangular ==
  /\ nodes = <<>> /\ edges = <<>>
  /\ token_to_node = [t \in Tokens |-> 0]
  /\ n_pools = 0 /\ n_updates = 0
  /\ last_call = <<>>
  /\ pc = "idle"
  /\ NoSearch
  /\ NoSelection
  /\ NoCall
  /\ fetch = <<>> /\ batch = <<>> /\ mp_loop = <<>>
  /\ \E m \in 1..2 :
       tri_loop = [cache |-> ReservesCache, max_retries |-> m, polls |-> 0,
                   last |-> <<>>]

tri_frame == <<graph_vars, pc, search_vars, eval_vars, sel_vars, call_vars,
               fetch, batch, mp_loop>>

\* One turn of the loop in which get_block_number fails.
TriQueryFails ==
  /\ tri_loop.polls < MaxPolls
  /\ tri_loop' = [tri_loop EXCEPT
                    !.polls = @ + 1,
                    !.last = [query |-> <<"Err">>, before |-> tri_loop.cache,
                              fetch |-> "none", fetched |-> <<>>,
                              analysed |-> FALSE]]
  /\ UNCHANGED tri_frame

\* One turn of the loop in which get_block_number answers: a block above the
\* cached one is fetched with retries; reserves that differ from the cached
\* ones are cached and analysed, equal ones only advance last_block, and a
\* failed fetch is only printed.
TriPoll ==
  /\ tri_loop.polls < MaxPolls
  /\ \E current_block \in TriangleBlocks :
       LET cache == tri_loop.cache
           turn(f, map, c, a) ==
             [tri_loop EXCEPT
                !.polls = @ + 1, !.cache = c,
                !.last = [query |-> <<"Ok", current_block>>, before |-> cache,
                          fetch |-> f, fetched |-> map, analysed |-> a]]
       IN IF has_changed(cache, current_block)
          THEN \E outcomes \in FetchOutcomes(TrianglePools, current_block,
                                             tri_loop.max_retries) :
                 LET r == fetch_all_reserves_with_retry(
                            outcomes, TrianglePools, tri_loop.max_retries)
                 IN tri_loop' =
                      IF r[1] = "Ok"
                      THEN IF reserves_changed(cache, r[2])
                           THEN turn("Ok", r[2], cache_update_all(cache, r[2]),
                                     TRUE)
                           ELSE turn("Ok", r[2],
                                     [cache EXCEPT !.last_block = current_block],
                                     FALSE)
                      ELSE turn("Err", <<>>, cache, FALSE)
          ELSE tri_loop' = turn("none", <<>>, cache, FALSE)
  /\ UNCHANGED tri_frame

NextTriangular == TriQueryFails \/ TriPoll

SpecTriangular == InitTriangular /\ [][NextTriangular]_vars

\* ---- C40

\* The map holds the pools the cache holds, each with the cached reserve_a
\* and reserve_b.
C40_SameReserves(data, map) ==
  /\ DOMAIN data = DOMAIN map
  /\ \A a \in DOMAIN map :
       /\ data[a].reserve_a = map[a].reserve_a
       /\ data[a].reserve_b = map[a].reserve_b

\* After every turn: the cache differs from the cache before only if the
\* fetch succeeded; after a failed fetch the block of the turn is still
\* above the cached one; after a fetch of reserves equal to the cached ones
\* the cached reserves are those before, last_block is the block of the
\* turn and no analysis was run; after a fetch of other reserves the map is
\* cached whole and analysed.
C40_AfterTurn ==
  (tri_loop # <<>> /\ tri_loop.last # <<>>) =>
    LET l == tri_loop.last
        cache == tri_loop.cache
    IN /\ cache # l.before => l.fetch = "Ok"
       /\ l.fetch = "Err" =>
            /\ cache = l.before
            /\ has_changed(cache, l.query[2])
            /\ ~l.analysed
       /\ (l.fetch = "Ok" /\ C40_SameReserves(l.before.data, l.fetched)) =>
            /\ cache.data = l.before.data
            /\ cache.last_block = l.query[2]
            /\ ~l.analysed
       /\ (l.fetch = "Ok" /\ ~C40_SameReserves(l.before.data, l.fetched)) =>
            /\ cache.data = l.fetched
            /\ cache.last_block = l.query[2]
            /\ l.analysed

\* A turn that follows a failed fetch and observes the same block fetches.
C40_FetchedAgain ==
  (/\ tri_loop.last # <<>>
   /\ tri_loop.last.fetch = "Err"
   /\ tri_loop'.last.query = tri_loop.last.query) =>
     tri_loop'.last.fetch # "none"

\* C40: in the triangular monitoring loop the cache changes only after a
\* successful fetch; a failed fetch leaves the cached reserves and block as
\* they were, so a next poll of the same block fetches again; a fetch of
\* reserves equal to the cached ones only advances the cached block number
\* and runs no analysis.
C40_CacheFollowsFetch == [](C40_AfterTurn) /\ [][C40_FetchedAgain]_vars

\* A block whose reserves equal the cached ones, fetched after an earlier
\* block was cached: only last_block moved.
C40_Witness ==
  /\ tri_loop # <<>> /\ tri_loop.last # <<>>
  /\ tri_loop.last.fetch = "Ok" /\ ~tri_loop.last.analysed
  /\ tri_loop.last.before.data # <<>>
  /\ tri_loop.cache.last_block > tri_loop.last.before.last_block

\* A failed fetch after an earlier block was cached.
C40_WitnessFailed ==
  /\ tri_loop # <<>> /\ tri_loop.last # <<>>
  /\ tri_loop.last.fetch = "Err"
  /\ tri_loop.last.before.data # <<>>

=============================================================================
